---- MODULE Spec2Model ----
(***************************************************************************)
(* drizzle-turso: the schema object model (definitions.ts), the diff       *)
(* engine (differences.ts), the statement generator (sql-utils.ts) and the *)
(* statement executor (index.ts).                                          *)
(*                                                                         *)
(* A snapshot (Definitions) is the sequence of its tables in Map insertion *)
(* order.  A table is a record of its name, its columns (Map insertion     *)
(* order), its primaryKey array, its uniques, foreignKeys and indexes.     *)
(* A Column object inside a constraint is a reference [owner, name]: the   *)
(* table it is mounted on and its name.  JavaScript Sets and Maps iterate  *)
(* in insertion order, so they are sequences without repetition.  A string *)
(* built by join() is the sequence of its tokens, so that two different    *)
(* lists that join to the same text are equal here as they are there.      *)
(***************************************************************************)
EXTENDS Integers, Sequences, FiniteSets, TLC

VARIABLES from, to, options, pc, result, db, client, snapshot, call

vars == <<from, to, options, pc, result, db, client, snapshot, call>>

(***************************************************************************)
(* Bounds of the explored inputs.                                          *)
(***************************************************************************)
\* how many features the two snapshots of one input carry together, on top of
\* the two one-column tables T(a) and U(a)
MaxFeatures == 2

\* the size (tables, columns, constraints and primary-key slots) up to which a
\* snapshot under construction takes one more call
MaxSize == 4

\* the highest primary-key slot a call asks for
MaxSlot == 2

(***************************************************************************)
(* Sequences as ordered collections.                                       *)
(***************************************************************************)
Range(s) == {s[i] : i \in DOMAIN s}

Has(s, x) == \E i \in DOMAIN s : s[i] = x

\* Set.add: insertion order, no repetition
SetAdd(s, x) == IF Has(s, x) THEN s ELSE Append(s, x)

RECURSIVE SetAddAll(_, _)
SetAddAll(s, xs) ==
    IF xs = <<>> THEN s ELSE SetAddAll(SetAdd(s, Head(xs)), Tail(xs))

\* Set.delete
SetDelete(s, x) == SelectSeq(s, LAMBDA y : y # x)

Map(s, F(_)) == [i \in DOMAIN s |-> F(s[i])]

RECURSIVE Flatten(_)
Flatten(ss) == IF ss = <<>> THEN <<>> ELSE Head(ss) \o Flatten(Tail(ss))

FlatMap(s, F(_)) == Flatten(Map(s, F))

\* Array.prototype.join: the tokens of the items with the separator between
RECURSIVE Join(_, _)
Join(items, sep) ==
    IF items = <<>> THEN <<>>
    ELSE IF Len(items) = 1 THEN Head(items)
    ELSE Head(items) \o <<sep>> \o Join(Tail(items), sep)

(***************************************************************************)
(* Strings are token sequences; Array.prototype.sort orders them by code   *)
(* unit, which is the lexicographic order of the tokens' ranks.            *)
(***************************************************************************)
TokenOrder ==
    <<" ", ",", "->", "CASCADE", "NO ACTION", "T", "U", "V", "a", "b", "c", "d",
      "on", "undefined", "|">>

Rank(t) == CHOOSE i \in DOMAIN TokenOrder : TokenOrder[i] = t

RECURSIVE StrLess(_, _)
StrLess(x, y) ==
    IF y = <<>> THEN FALSE
    ELSE IF x = <<>> THEN TRUE
    ELSE IF Head(x) = Head(y) THEN StrLess(Tail(x), Tail(y))
    ELSE Rank(Head(x)) < Rank(Head(y))

\* the strings of a set, ascending
RECURSIVE SortStrings(_)
SortStrings(S) ==
    IF S = {} THEN <<>>
    ELSE LET m == CHOOSE x \in S : \A y \in S \ {x} : StrLess(x, y)
         IN  <<m>> \o SortStrings(S \ {m})

\* Array.prototype.sort of a list of strings (repetitions kept)
RECURSIVE SortList(_)
SortList(l) ==
    IF l = <<>> THEN <<>>
    ELSE LET i == CHOOSE i \in DOMAIN l :
                      \A j \in DOMAIN l : ~StrLess(l[j], l[i])
         IN  <<l[i]>> \o SortList([k \in 1..(Len(l) - 1) |->
                                       IF k < i THEN l[k] ELSE l[k + 1]])

(***************************************************************************)
(* The schema object model (definitions.ts).                               *)
(***************************************************************************)
\* the value of an unset (null) default
Null == "null"

\* a hole of a sparse array, and the table of an element not yet mounted
Unmounted == "unmounted"

Undefined == [owner |-> Unmounted, name |-> "undefined"]

\* TableElement.mount
mount(element, table) == [element EXCEPT !.owner = table]

Column(name, type, notNull, defaultValue, autoIncrement) ==
    [owner |-> Unmounted, name |-> name, type |-> type, notNull |-> notNull,
     defaultValue |-> IF defaultValue = "NULL" THEN Null ELSE defaultValue,
     autoIncrement |-> autoIncrement]

\* a Column object as a constraint holds it: its ownerTable and its name
Ref(owner, name) == [owner |-> owner, name |-> name]

Index(name, columns, unique) ==
    [owner |-> Unmounted, name |-> name, columns |-> columns, unique |-> unique]

Unique(columns) == [owner |-> Unmounted, columns |-> columns]

ForeignKey(foreignTable, foreignColumns, localColumns, onUpdate, onDelete) ==
    [owner |-> Unmounted, foreignTable |-> foreignTable,
     foreignColumns |-> foreignColumns, localColumns |-> localColumns,
     onUpdate |-> onUpdate, onDelete |-> onDelete]

Table(name) ==
    [name |-> name, columns |-> <<>>, primaryKey |-> <<>>, foreignKeys |-> <<>>,
     uniques |-> <<>>, indexes |-> <<>>]

\* Map.has / Map.get by name on a sequence of named records
HasName(s, n) == \E i \in DOMAIN s : s[i].name = n

GetName(s, n) == s[CHOOSE i \in DOMAIN s : s[i].name = n]

HasDuplicates(s) == \E i, j \in DOMAIN s : i < j /\ s[i] = s[j]

\* Index.verify: TRUE when it returns, FALSE when it throws
IndexVerify(index) ==
    \A i \in DOMAIN index.columns : index.columns[i].owner = index.owner

UniqueVerify(unique) ==
    /\ \A i \in DOMAIN unique.columns : unique.columns[i].owner = unique.owner
    /\ ~HasDuplicates(unique.columns)

ForeignKeyVerify(fk) ==
    /\ fk.foreignTable # fk.owner
    /\ Len(fk.foreignColumns) # 0
    /\ Len(fk.localColumns) # 0
    /\ Len(fk.foreignColumns) = Len(fk.localColumns)
    /\ \A i \in DOMAIN fk.foreignColumns :
           /\ fk.foreignColumns[i].owner = fk.foreignTable
           /\ fk.localColumns[i].owner = fk.owner
    /\ ~HasDuplicates(fk.localColumns)
    /\ ~HasDuplicates(fk.foreignColumns)

\* faulty variant: the slots are visited by forEach, which skips the unfilled
verifyPrimaryKey_SkipsHoles(t) ==
    \A i \in DOMAIN t.primaryKey :
        t.primaryKey[i] # Undefined => HasName(t.columns, t.primaryKey[i].name)

verifyPrimaryKey(t) ==
    \A i \in DOMAIN t.primaryKey :
        /\ t.primaryKey[i] # Undefined
        /\ HasName(t.columns, t.primaryKey[i].name)

\* Table.verify: it checks the owner of each index, not the index's columns
TableVerify(t) ==
    /\ verifyPrimaryKey(t)
    /\ \A i \in DOMAIN t.columns : t.columns[i].owner = t.name
    /\ \A i \in DOMAIN t.indexes : t.indexes[i].owner = t.name
    /\ \A i \in DOMAIN t.foreignKeys : ForeignKeyVerify(t.foreignKeys[i])
    /\ \A i \in DOMAIN t.uniques : UniqueVerify(t.uniques[i])

allIndexes(defs) == FlatMap(defs, LAMBDA t : t.indexes)

allSingleColumnForeignKeys(defs) ==
    FlatMap(defs, LAMBDA t :
        SelectSeq(t.foreignKeys, LAMBDA fk : Len(fk.localColumns) = 1))

\* the Column object a reference stands for
Deref(defs, ref) == GetName(GetName(defs, ref.owner).columns, ref.name)

(***************************************************************************)
(* The statement generator (sql-utils.ts).  A statement is a record of     *)
(* what its text says, and of nothing the text leaves out.  A table name   *)
(* inside a statement is a string, so a sequence of tokens.                *)
(***************************************************************************)
Str(name) == <<name>>

NoReference == [table |-> Null, column |-> Null, onDelete |-> Null, onUpdate |-> Null]

Reference(fk) ==
    [table |-> fk.foreignTable, column |-> fk.foreignColumns[1].name,
     onDelete |-> fk.onDelete, onUpdate |-> fk.onUpdate]

Names(columns) == [i \in DOMAIN columns |-> columns[i].name]

\* the first element of a sequence that satisfies Test, as Array.prototype.find
FindFirst(s, Test(_)) ==
    LET hits == SelectSeq(s, Test) IN IF hits = <<>> THEN <<>> ELSE <<hits[1]>>

\* one column line of CREATE TABLE: DEFAULT is left out for a falsy defaultValue
createTableColumn(table, col, references) ==
    LET fk == FindFirst(table.foreignKeys,
                        LAMBDA f : Len(f.localColumns) = 1
                                   /\ f.localColumns[1].name = col.name)
    IN  [name |-> col.name, type |-> col.type, notNull |-> col.notNull,
         autoIncrement |-> col.autoIncrement,
         default |-> IF col.defaultValue \in {Null, ""} THEN Null
                     ELSE col.defaultValue,
         ref |-> IF fk # <<>> /\ references THEN Reference(fk[1]) ELSE NoReference]

createTableSQL(table, references, name) ==
    <<[kind |-> "CREATE TABLE",
       table |-> name,
       columns |-> [i \in DOMAIN table.columns |->
                        createTableColumn(table, table.columns[i], references)],
       primaryKey |-> Names(table.primaryKey),
       foreignKeys |->
           LET multi == SelectSeq(table.foreignKeys,
                                  LAMBDA f : Len(f.localColumns) # 1)
           IN  [i \in DOMAIN multi |->
                   [local |-> Names(multi[i].localColumns),
                    table |-> multi[i].foreignTable,
                    foreign |-> Names(multi[i].foreignColumns),
                    onDelete |-> multi[i].onDelete,
                    onUpdate |-> multi[i].onUpdate]],
       uniques |-> [i \in DOMAIN table.uniques |-> Names(table.uniques[i].columns)]]>>

removeTableSQL(tableName) == <<[kind |-> "DROP TABLE", table |-> tableName]>>

removeColumnSQL(column) ==
    <<[kind |-> "DROP COLUMN", table |-> Str(column.owner), column |-> column.name]>>

copyDataSQL(fromName, toName, columns) ==
    <<[kind |-> "INSERT SELECT", into |-> toName, table |-> fromName,
       columns |-> columns]>>

IsNumeric(type) == type \in {"INTEGER", "REAL"}

defineColumnSql(column, forceDefault) ==
    LET d0 == column.defaultValue
        d1 == IF d0 \in {Null, ""} /\ forceDefault
              THEN (IF IsNumeric(column.type) THEN "0" ELSE "\"\"")
              ELSE d0
        d2 == IF d1 = "" THEN "\"\"" ELSE d1
    IN  [name |-> column.name, type |-> column.type, notNull |-> column.notNull,
         autoIncrement |-> column.autoIncrement, default |-> d2]

addColumnToTableSQL(tableName, column) ==
    IF column.notNull /\ column.defaultValue \in {Null, "NULL"}
    THEN <<[kind |-> "ADD COLUMN", table |-> tableName,
            def |-> defineColumnSql(column, TRUE)],
           [kind |-> "ALTER COLUMN", table |-> tableName, column |-> column.name,
            def |-> defineColumnSql(column, TRUE), ref |-> NoReference]>>
    ELSE <<[kind |-> "ADD COLUMN", table |-> tableName,
            def |-> defineColumnSql(column, FALSE)]>>

addColumnSQL(column) == addColumnToTableSQL(Str(column.owner), column)

addIndexToTableSQL(tableName, indexName, columns) ==
    <<[kind |-> "CREATE INDEX", index |-> indexName, table |-> tableName,
       columns |-> columns]>>

removeForeignKeyFromColumnSQL(tableName, column) ==
    <<[kind |-> "ALTER COLUMN", table |-> tableName, column |-> column.name,
       def |-> defineColumnSql(column, FALSE), ref |-> NoReference]>>

addForeignKeyToColumnSQL(tableName, column, fk) ==
    <<[kind |-> "ALTER COLUMN", table |-> tableName, column |-> column.name,
       def |-> defineColumnSql(column, FALSE), ref |-> Reference(fk)]>>

\* faulty variant: a unique constraint of several columns counts as well
tmpDefaultValueForOldTable_AnyUnique(toTable, column) ==
    LET isPk == \E i \in DOMAIN toTable.primaryKey :
                    toTable.primaryKey[i].name = column.name
        isUnique == isPk \/ \E i \in DOMAIN toTable.uniques :
                        \E k \in DOMAIN toTable.uniques[i].columns :
                            toTable.uniques[i].columns[k].name = column.name
        numeric == IF IsNumeric(column.type) THEN "0" ELSE ""
    IN  [isUnique |-> isUnique,
         value |-> IF column.defaultValue \notin {Null, "NULL"} /\ ~isUnique
                   THEN column.defaultValue ELSE numeric]

\* the temporary default of a column the old table lacks
tmpDefaultValueForOldTable(toTable, column) ==
    LET isPk == \E i \in DOMAIN toTable.primaryKey :
                    toTable.primaryKey[i].name = column.name
        isUnique == isPk \/ \E i \in DOMAIN toTable.uniques :
                        /\ Len(toTable.uniques[i].columns) = 1
                        /\ toTable.uniques[i].columns[1].name = column.name
        numeric == IF IsNumeric(column.type) THEN "0" ELSE ""
    IN  [isUnique |-> isUnique,
         value |-> IF column.defaultValue \notin {Null, "NULL"} /\ ~isUnique
                   THEN column.defaultValue ELSE numeric]

recreateAddColumn(fromTable, toTable, column) ==
    LET tmp == tmpDefaultValueForOldTable(toTable, column)
    IN  addColumnToTableSQL(Str(fromTable.name),
            Column(column.name, column.type, column.notNull, tmp.value,
                   column.autoIncrement))
        \o (IF tmp.isUnique
            THEN <<[kind |-> "UPDATE", table |-> Str(fromTable.name),
                    column |-> column.name]>>
            ELSE <<>>)

\* faulty variant: the shadow table is renamed to its own name
recreateTableSql_RenameToShadow(fromTable, toTable, nonce) ==
    LET newTmpName == <<toTable.name, "__new__", nonce>>
        added == SelectSeq(toTable.columns,
                           LAMBDA c : ~HasName(fromTable.columns, c.name))
    IN  FlatMap(added, LAMBDA c : recreateAddColumn(fromTable, toTable, c))
        \o createTableSQL(toTable, FALSE, newTmpName)
        \o copyDataSQL(Str(fromTable.name), newTmpName, Names(toTable.columns))
        \o removeTableSQL(Str(fromTable.name))
        \o <<[kind |-> "RENAME", table |-> newTmpName, to |-> newTmpName]>>

\* nonce is the value customAlphabet('1234567890abcdef', 16)() returned
\* faulty variant: the old table is dropped before its rows are copied
recreateTableSql_DropFirst(fromTable, toTable, nonce) ==
    LET newTmpName == <<toTable.name, "__new__", nonce>>
        added == SelectSeq(toTable.columns,
                           LAMBDA c : ~HasName(fromTable.columns, c.name))
    IN  FlatMap(added, LAMBDA c : recreateAddColumn(fromTable, toTable, c))
        \o createTableSQL(toTable, FALSE, newTmpName)
        \o removeTableSQL(Str(fromTable.name))
        \o copyDataSQL(Str(fromTable.name), newTmpName, Names(toTable.columns))
        \o <<[kind |-> "RENAME", table |-> newTmpName, to |-> Str(fromTable.name)]>>

\* faulty variant: the shadow table is created with its REFERENCES clauses
recreateTableSql_WithReferences(fromTable, toTable, nonce) ==
    LET newTmpName == <<toTable.name, "__new__", nonce>>
        added == SelectSeq(toTable.columns,
                           LAMBDA c : ~HasName(fromTable.columns, c.name))
    IN  FlatMap(added, LAMBDA c : recreateAddColumn(fromTable, toTable, c))
        \o createTableSQL(toTable, TRUE, newTmpName)
        \o copyDataSQL(Str(fromTable.name), newTmpName, Names(toTable.columns))
        \o removeTableSQL(Str(fromTable.name))
        \o <<[kind |-> "RENAME", table |-> newTmpName, to |-> Str(fromTable.name)]>>

recreateTableSql(fromTable, toTable, nonce) ==
    LET newTmpName == <<toTable.name, "__new__", nonce>>
        added == SelectSeq(toTable.columns,
                           LAMBDA c : ~HasName(fromTable.columns, c.name))
    IN  FlatMap(added, LAMBDA c : recreateAddColumn(fromTable, toTable, c))
        \o createTableSQL(toTable, FALSE, newTmpName)
        \o copyDataSQL(Str(fromTable.name), newTmpName, Names(toTable.columns))
        \o removeTableSQL(Str(fromTable.name))
        \o <<[kind |-> "RENAME", table |-> newTmpName, to |-> Str(fromTable.name)]>>

(***************************************************************************)
(* The diff engine (differences.ts).                                       *)
(***************************************************************************)
\* faulty variant: the table is looked up in the snapshot it comes from
getTablesToDelete_SameSnapshot(f, t) ==
    SelectSeq(f, LAMBDA table : ~HasName(f, table.name))

getTablesToDelete(f, t) == SelectSeq(f, LAMBDA table : ~HasName(t, table.name))

\* faulty variant: the tables `from` already has are not left out
getTablesToAdd_All(f, t) == t

getTablesToAdd(f, t) == SelectSeq(t, LAMBDA table : ~HasName(f, table.name))

\* faulty variant: the two tables are taken for each other
getColumnsToAddFromTables_Swapped(tableFrom, tableTo) ==
    SelectSeq(tableFrom.columns, LAMBDA c : ~HasName(tableTo.columns, c.name))

getColumnsToAddFromTables(tableFrom, tableTo) ==
    SelectSeq(tableTo.columns, LAMBDA c : ~HasName(tableFrom.columns, c.name))

getColumnsToAdd(f, t) ==
    FlatMap(SelectSeq(t, LAMBDA tableTo : HasName(f, tableTo.name)),
            LAMBDA tableTo :
                getColumnsToAddFromTables(GetName(f, tableTo.name), tableTo))

\* faulty variant: the columns of `to` that `from` lacks
getColumnsToDeleteFromTables_Swapped(tableFrom, tableTo) ==
    SelectSeq(tableTo.columns, LAMBDA c : ~HasName(tableFrom.columns, c.name))

getColumnsToDeleteFromTables(tableFrom, tableTo) ==
    SelectSeq(tableFrom.columns, LAMBDA c : ~HasName(tableTo.columns, c.name))

getColumnsToDelete(f, t) ==
    FlatMap(SelectSeq(t, LAMBDA tableTo : HasName(f, tableTo.name)),
            LAMBDA tableTo :
                getColumnsToDeleteFromTables(GetName(f, tableTo.name), tableTo))

\* encodeURIComponent leaves the names used here as they are
stringifyColumnsList(columns) == Join(SortList(Map(columns, LAMBDA c : Str(c.name))), ",")

\* faulty variant: the column lists are compared sorted, as those of a unique
indexesEqual_Sorted(a, b) ==
    /\ a.unique = b.unique
    /\ a.name = b.name
    /\ stringifyColumnsList(a.columns) = stringifyColumnsList(b.columns)

indexesEqual(a, b) ==
    /\ a.unique = b.unique
    /\ a.name = b.name
    /\ Join(Map(a.columns, LAMBDA c : Str(c.name)), ",")
         = Join(Map(b.columns, LAMBDA c : Str(c.name)), ",")

\* new Map(entries): a key keeps the place of its first entry and the value
\* of its last
MapOfIndexes(indexes) ==
    LET firsts == SelectSeq([i \in DOMAIN indexes |-> i],
                     LAMBDA i : \A j \in 1..(i - 1) : indexes[j].name # indexes[i].name)
        last(n) == indexes[CHOOSE i \in DOMAIN indexes :
                        /\ indexes[i].name = n
                        /\ \A j \in DOMAIN indexes : indexes[j].name = n => j <= i]
    IN  [k \in DOMAIN firsts |-> last(indexes[firsts[k]].name)]

getIndexesToAdd(f, t) ==
    LET indexesFrom == MapOfIndexes(allIndexes(f))
        indexesTo == MapOfIndexes(allIndexes(t))
    IN  SelectSeq(indexesTo, LAMBDA index :
            \/ ~HasName(indexesFrom, index.name)
            \/ ~indexesEqual(GetName(indexesFrom, index.name), index))

getIndexesToRemove(f, t) ==
    LET indexesFrom == MapOfIndexes(allIndexes(f))
        indexesTo == MapOfIndexes(allIndexes(t))
    IN  SelectSeq(indexesFrom, LAMBDA index :
            \/ ~HasName(indexesTo, index.name)
            \/ ~indexesEqual(index, GetName(indexesTo, index.name)))

primaryKeysEqual(a, b) ==
    stringifyColumnsList(a.primaryKey) = stringifyColumnsList(b.primaryKey)

stringifyUnique(unique) == stringifyColumnsList(unique.columns)

stringifyUniques(uniques) ==
    Join(SortStrings(Range(Map(uniques, stringifyUnique))), ",")

uniquesEqual(a, b) == stringifyUniques(a.uniques) = stringifyUniques(b.uniques)

stringifyForeignKey(fk) ==
    stringifyColumnsList(fk.localColumns) \o <<" ", "->", " ">>
    \o stringifyColumnsList(fk.foreignColumns)
    \o <<" ", "on", " ", fk.foreignTable, " ", "|", " ", fk.onDelete, " ", "|", " ",
         fk.onUpdate>>

stringifyForeignKeys(fks) ==
    Join(SortStrings(Range(Map(fks, stringifyForeignKey))), ",")

\* faulty variant: the unique constraints are compared in place of the foreign keys
foreignKeysEqual_Uniques(a, b) == uniquesEqual(a, b)

foreignKeysEqual(a, b) ==
    stringifyForeignKeys(a.foreignKeys) = stringifyForeignKeys(b.foreignKeys)

\* the names of the tables that hold a foreign key to the table named target
tablesReferences(defs, target) ==
    Map(SelectSeq(defs, LAMBDA table :
            \E i \in DOMAIN table.foreignKeys :
                table.foreignKeys[i].foreignTable = target),
        LAMBDA table : table.name)

\* faulty variant: any index counts, flagged unique or not
hasUniqueIndexes_AnyIndex(fromTable) == fromTable.indexes # <<>>

hasUniqueIndexes(fromTable) ==
    \E i \in DOMAIN fromTable.indexes : fromTable.indexes[i].unique

\* the reasons of the columns present in both versions of a table
columnReasons(fromTable, toTable) ==
    FlatMap(SelectSeq(fromTable.columns,
                      LAMBDA c : HasName(toTable.columns, c.name)),
        LAMBDA column :
            LET toColumn == GetName(toTable.columns, column.name)
            IN  (IF column.type # toColumn.type
                 THEN <<[reason |-> "type", column |-> column.name]>> ELSE <<>>)
                \o (IF column.notNull # toColumn.notNull
                    THEN <<[reason |-> "notNull", column |-> column.name]>> ELSE <<>>)
                \o (IF column.defaultValue # toColumn.defaultValue
                    THEN <<[reason |-> "default", column |-> column.name]>>
                    ELSE <<>>))

Flag(cond, reason) ==
    IF cond THEN <<[reason |-> reason, column |-> Null]>> ELSE <<>>

\* one turn of the loop of getTablesToRecreate: the reasons of a table present
\* in both snapshots and whether they make its referencing tables drop their
\* references
classify(f, t, fromTable) ==
    LET toTable == GetName(t, fromTable.name)
        pkChanged == ~primaryKeysEqual(fromTable, toTable)
        uniquesChanged == ~uniquesEqual(fromTable, toTable)
        fksChanged == ~foreignKeysEqual(fromTable, toTable)
        uniqueIndexes == hasUniqueIndexes(fromTable)
        addedColumns == \E i \in DOMAIN getColumnsToAdd(f, t) :
                            getColumnsToAdd(f, t)[i].owner = fromTable.name
        structural == pkChanged \/ uniquesChanged \/ fksChanged \/ uniqueIndexes
                          \/ addedColumns
    IN  [name |-> fromTable.name,
         structural |-> structural,
         reason |-> columnReasons(fromTable, toTable)
                    \o (IF structural
                        THEN Flag(addedColumns, "added columns")
                             \o Flag(pkChanged, "pk")
                             \o Flag(uniquesChanged, "uniques")
                             \o Flag(fksChanged, "fks")
                             \o Flag(uniqueIndexes, "unique indexes")
                        ELSE <<>>)]

\* faulty variant: any reason to recreate makes the referencing tables drop
\* their references
dropReferencesOf_AnyReason(f, t, c) ==
    (IF c.reason # <<>>
     THEN SelectSeq(tablesReferences(f, c.name), LAMBDA n : HasName(t, n))
          \o <<c.name>>
     ELSE <<>>)

\* the additions one turn makes to tablesToDropReferences, in order
dropReferencesOf(f, t, c) ==
    (IF c.structural
     THEN SelectSeq(tablesReferences(f, c.name), LAMBDA n : HasName(t, n))
     ELSE <<>>)
    \o (IF c.reason # <<>> THEN <<c.name>> ELSE <<>>)

getTablesToRecreate(f, t) ==
    LET both == SelectSeq(f, LAMBDA fromTable : HasName(t, fromTable.name))
        cls == [i \in DOMAIN both |-> classify(f, t, both[i])]
        recreated == SelectSeq(cls, LAMBDA c : c.reason # <<>>)
    IN  [tablesToRecreate |-> Map(recreated, LAMBDA c : c.name),
         tablesToDropReferences |->
             SetAddAll(<<>>, FlatMap(cls, LAMBDA c : dropReferencesOf(f, t, c))),
         recreateReasons |->
             [i \in DOMAIN recreated |->
                 [name |-> recreated[i].name, reason |-> recreated[i].reason]]]

Title(cat, table, name) == [cat |-> cat, table |-> table, name |-> name]

Operation(title, sql) == [title |-> title, sql |-> sql]

EmptySummary ==
    [addedColumns |-> <<>>, removedColumns |-> <<>>, addedTables |-> <<>>,
     removedTables |-> <<>>, recreatedTables |-> <<>>, recreateReasons |-> <<>>]

\* what a call that threw leaves its caller with
Threw(error) ==
    [threw |-> TRUE, error |-> error, operations |-> <<>>, summary |-> EmptySummary]

\* faulty variant: a single existing table is let through
creationModeViolated_MoreThanOne(f, opts) == opts.creationMode /\ Len(f) > 1

creationModeViolated(f, opts) == opts.creationMode /\ Len(f) > 0

verified(defs) == \A i \in DOMAIN defs : TableVerify(defs[i])

RECURSIVE DeleteAll(_, _)
DeleteAll(s, xs) ==
    IF xs = <<>> THEN s ELSE DeleteAll(SetDelete(s, Head(xs)), Tail(xs))

\* the operations, by the loop that pushes them
removeIndexOperations(indexesToRemove) ==
    Map(indexesToRemove, LAMBDA index :
        Operation(Title("Remove index", Null, index.name),
                  <<[kind |-> "DROP INDEX", index |-> index.name]>>))

\* faulty variant: every single-column foreign key of `from` is removed
removeForeignKeyOperations_All(f, tablesToDropReferences) ==
    Map(allSingleColumnForeignKeys(f),
        LAMBDA fk :
            Operation(Title("Remove foreign key", fk.owner, fk.localColumns[1].name),
                      removeForeignKeyFromColumnSQL(Str(fk.owner),
                                                    Deref(f, fk.localColumns[1]))))

removeForeignKeyOperations(f, tablesToDropReferences) ==
    Map(SelectSeq(allSingleColumnForeignKeys(f),
                  LAMBDA fk : Has(tablesToDropReferences, fk.owner)),
        LAMBDA fk :
            Operation(Title("Remove foreign key", fk.owner, fk.localColumns[1].name),
                      removeForeignKeyFromColumnSQL(Str(fk.owner),
                                                    Deref(f, fk.localColumns[1]))))

createTableOperations(tablesToAdd) ==
    Map(tablesToAdd, LAMBDA table :
        Operation(Title("Create table", table.name, Null),
                  createTableSQL(table, FALSE, Str(table.name))))

removeTableOperations(tablesToDelete) ==
    Map(tablesToDelete, LAMBDA table :
        Operation(Title("Remove table", table.name, Null),
                  removeTableSQL(Str(table.name))))

addColumnOperations(columnsToAdd) ==
    Map(columnsToAdd, LAMBDA c :
        Operation(Title("Add column", c.owner, c.name), addColumnSQL(c)))

removeColumnOperations(columnsToDelete) ==
    Map(columnsToDelete, LAMBDA c :
        Operation(Title("Remove column", c.owner, c.name), removeColumnSQL(c)))

recreateTableOperations(f, t, tablesToRecreate, nonces) ==
    [i \in DOMAIN tablesToRecreate |->
        Operation(Title("Recreate table", tablesToRecreate[i], Null),
                  recreateTableSql(GetName(f, tablesToRecreate[i]),
                                   GetName(t, tablesToRecreate[i]), nonces[i]))]

\* the body of the loop over toForeignKeys, for the keys it does not skip
addForeignKeyOperation(t, fk) ==
    Operation(Title("Add foreign key", fk.owner, fk.localColumns[1].name),
              addForeignKeyToColumnSQL(Str(fk.owner), Deref(t, fk.localColumns[1]), fk))

foreignKeysToAdd(t, tablesToDropReferences, tablesToAdd) ==
    SelectSeq(allSingleColumnForeignKeys(t),
              LAMBDA fk : \/ Has(tablesToDropReferences, fk.owner)
                          \/ Has(tablesToAdd, GetName(t, fk.owner)))

\* faulty variant: the loop does not break in creationMode
addForeignKeyOperations_NoBreak(t, opts, tablesToDropReferences, tablesToAdd) ==
    Map(foreignKeysToAdd(t, tablesToDropReferences, tablesToAdd),
        LAMBDA fk : addForeignKeyOperation(t, fk))

addForeignKeyOperations(t, opts, tablesToDropReferences, tablesToAdd) ==
    IF opts.creationMode THEN <<>>
    ELSE Map(foreignKeysToAdd(t, tablesToDropReferences, tablesToAdd),
             LAMBDA fk : addForeignKeyOperation(t, fk))

addIndexOperations(indexesToAdd) ==
    Map(indexesToAdd, LAMBDA index :
        Operation(Title("Add index", Null, index.name),
                  addIndexToTableSQL(Str(index.owner), index.name,
                                     Names(index.columns))))

\* faulty variant: the foreign keys are added back before the tables are recreated
emit_ForeignKeysEarly(removeIndex, removeForeignKey, createTable, removeTable, addColumn, removeColumn, recreateTable, addForeignKey, addIndex) ==
    removeIndex \o removeForeignKey \o createTable \o removeTable \o addColumn
    \o removeColumn \o addForeignKey \o recreateTable \o addIndex

\* the order in which differences pushes its operations
emit(removeIndex, removeForeignKey, createTable, removeTable, addColumn, removeColumn, recreateTable, addForeignKey, addIndex) ==
    removeIndex \o removeForeignKey \o createTable \o removeTable \o addColumn
    \o removeColumn \o recreateTable \o addForeignKey \o addIndex

\* the columns and indexes of the tables to recreate, in the order of the loop
columnsOf(defs, names) == FlatMap(names, LAMBDA n : GetName(defs, n).columns)

\* faulty variant: the indexes of recreated tables are left to the index diff
indexesOf_None(defs, names) == <<>>

indexesOf(defs, names) == FlatMap(names, LAMBDA n : GetName(defs, n).indexes)

\* differences(from, to, options); nonces[i] is the random suffix drawn for
\* the i-th recreated table
\* the operations and the summary, from the three table-level comparisons
plan(f, t, opts, nonces, tablesToDelete, tablesToAdd, rec) ==
    LET columnsToAdd == DeleteAll(<<>>, columnsOf(t, rec.tablesToRecreate))
        columnsToDelete ==
            DeleteAll(getColumnsToDelete(f, t), columnsOf(f, rec.tablesToRecreate))
        indexesToAdd ==
            SetAddAll(getIndexesToAdd(f, t), indexesOf(t, rec.tablesToRecreate))
        indexesToRemove ==
            SetAddAll(getIndexesToRemove(f, t), indexesOf(f, rec.tablesToRecreate))
    IN  [threw |-> FALSE,
         error |-> Null,
         operations |->
             emit(removeIndexOperations(indexesToRemove),
                  removeForeignKeyOperations(f, rec.tablesToDropReferences),
                  createTableOperations(tablesToAdd),
                  removeTableOperations(tablesToDelete),
                  addColumnOperations(columnsToAdd),
                  removeColumnOperations(columnsToDelete),
                  recreateTableOperations(f, t, rec.tablesToRecreate, nonces),
                  addForeignKeyOperations(t, opts, rec.tablesToDropReferences,
                                          tablesToAdd),
                  addIndexOperations(indexesToAdd)),
         summary |->
             [addedColumns |-> Map(columnsToAdd, LAMBDA c : Ref(c.owner, c.name)),
              removedColumns |-> Map(columnsToDelete, LAMBDA c : Ref(c.owner, c.name)),
              addedTables |-> Map(tablesToAdd, LAMBDA table : table.name),
              recreatedTables |-> rec.tablesToRecreate,
              removedTables |-> Map(tablesToDelete, LAMBDA table : table.name),
              recreateReasons |-> rec.recreateReasons]]

\* the three table-level comparisons are each made once, as in the code
differences(f, t, opts, nonces) ==
    IF creationModeViolated(f, opts)
    THEN Threw("Creation mode is not supported for existing tables")
    ELSE IF ~(verified(f) /\ verified(t)) THEN Threw("verify")
    ELSE CHOOSE p \in {plan(f, t, opts, nonces, tablesToDelete, tablesToAdd, rec) :
                           tablesToDelete \in {getTablesToDelete(f, t)},
                           tablesToAdd \in {getTablesToAdd(f, t)},
                           rec \in {getTablesToRecreate(f, t)}} : TRUE

(***************************************************************************)
(* The inputs: pairs of snapshots over the tables T and U with the columns *)
(* a and b.  A snapshot is the base {T(a TEXT), U(a TEXT)} changed by a    *)
(* set of features; a feature that needs a column b brings it along.       *)
(***************************************************************************)
Features ==
    {"empty", "noT", "noU", "T.b", "U.b", "T.a.type", "T.a.notNull", "T.a.default",
     "pkT.a", "pkT.b", "pkU.a", "uqT.a", "uqT.b", "uqT.ab",
     "fkU.a>T.a", "fkT.a>U.a", "fkU.ab>T.ab", "fkU.ab>T.ba",
     "ixT.a", "ixT.ab", "ixT.ba", "ixU.a", "uxT.a", "uxT.ab", "uxT.ba", "uxU.a",
     "badIndex", "badUnique", "badForeignKey", "sparsePk"}

NeedsT == {"T.b", "T.a.type", "T.a.notNull", "T.a.default", "pkT.a", "pkT.b",
           "uqT.a", "uqT.b", "uqT.ab", "fkU.a>T.a", "fkT.a>U.a", "fkU.ab>T.ab",
           "fkU.ab>T.ba", "ixT.a", "ixT.ab", "ixT.ba", "uxT.a", "uxT.ab", "uxT.ba",
           "badIndex", "badUnique", "badForeignKey", "sparsePk"}

NeedsU == {"U.b", "pkU.a", "fkU.a>T.a", "fkT.a>U.a", "fkU.ab>T.ab", "fkU.ab>T.ba",
           "ixU.a", "uxU.a", "badIndex", "badUnique", "badForeignKey"}

NeedsTb == {"T.b", "pkT.b", "uqT.b", "uqT.ab", "fkU.ab>T.ab", "fkU.ab>T.ba",
            "ixT.ab", "ixT.ba", "uxT.ab", "uxT.ba", "sparsePk"}

NeedsUb == {"U.b", "fkU.ab>T.ab", "fkU.ab>T.ba"}

\* the features that define the index named i
IndexI == {"ixT.a", "ixT.ab", "ixT.ba", "ixU.a", "uxT.a", "uxT.ab", "uxT.ba", "uxU.a"}

AtMostOne(F, S) == Cardinality(F \cap S) <= 1

ValidFeatures(F) ==
    /\ "empty" \in F => F = {"empty"}
    /\ "noT" \in F => F \cap NeedsT = {}
    /\ "noU" \in F => F \cap NeedsU = {}
    /\ AtMostOne(F, IndexI)
    /\ AtMostOne(F, {"fkU.ab>T.ab", "fkU.ab>T.ba"})
    /\ "sparsePk" \in F => F \cap {"pkT.a", "pkT.b"} = {}

Refs(owner, names) == [i \in DOMAIN names |-> Ref(owner, names[i])]

If(cond, s) == IF cond THEN s ELSE <<>>

MountAll(elements, table) == [i \in DOMAIN elements |-> mount(elements[i], table)]

BuildT(F) ==
    [name |-> "T",
     columns |-> MountAll(
         <<Column("a", IF "T.a.type" \in F THEN "INTEGER" ELSE "TEXT",
                  "T.a.notNull" \in F,
                  IF "T.a.default" \in F THEN "1" ELSE Null, FALSE)>>
         \o If(F \cap NeedsTb # {}, <<Column("b", "INTEGER", TRUE, Null, FALSE)>>),
         "T"),
     primaryKey |->
         IF "sparsePk" \in F THEN <<Undefined, Ref("T", "b")>>
         ELSE If("pkT.a" \in F, Refs("T", <<"a">>))
              \o If("pkT.b" \in F, Refs("T", <<"b">>)),
     uniques |-> MountAll(
         If("uqT.a" \in F, <<Unique(Refs("T", <<"a">>))>>)
         \o If("uqT.b" \in F, <<Unique(Refs("T", <<"b">>))>>)
         \o If("uqT.ab" \in F, <<Unique(Refs("T", <<"a", "b">>))>>)
         \o If("badUnique" \in F, <<Unique(<<Ref("T", "a"), Ref("U", "a")>>)>>),
         "T"),
     foreignKeys |-> MountAll(
         If("fkT.a>U.a" \in F,
            <<ForeignKey("U", Refs("U", <<"a">>), Refs("T", <<"a">>),
                         "NO ACTION", "CASCADE")>>),
         "T"),
     indexes |-> MountAll(
         If(F \cap {"ixT.a", "uxT.a"} # {},
            <<Index("i", Refs("T", <<"a">>), "uxT.a" \in F)>>)
         \o If(F \cap {"ixT.ab", "uxT.ab"} # {},
               <<Index("i", Refs("T", <<"a", "b">>), "uxT.ab" \in F)>>)
         \o If(F \cap {"ixT.ba", "uxT.ba"} # {},
               <<Index("i", Refs("T", <<"b", "a">>), "uxT.ba" \in F)>>)
         \o If("badIndex" \in F, <<Index("k", <<Ref("U", "a")>>, FALSE)>>),
         "T")]

BuildU(F) ==
    [name |-> "U",
     columns |-> MountAll(
         <<Column("a", "TEXT", FALSE, Null, FALSE)>>
         \o If(F \cap NeedsUb # {}, <<Column("b", "TEXT", FALSE, "'x'", FALSE)>>),
         "U"),
     primaryKey |-> If("pkU.a" \in F, Refs("U", <<"a">>)),
     uniques |-> <<>>,
     foreignKeys |-> MountAll(
         If("fkU.a>T.a" \in F,
            <<ForeignKey("T", Refs("T", <<"a">>), Refs("U", <<"a">>),
                         "NO ACTION", "NO ACTION")>>)
         \o If("fkU.ab>T.ab" \in F,
               <<ForeignKey("T", Refs("T", <<"a", "b">>), Refs("U", <<"a", "b">>),
                            "NO ACTION", "NO ACTION")>>)
         \o If("fkU.ab>T.ba" \in F,
               <<ForeignKey("T", Refs("T", <<"b", "a">>), Refs("U", <<"a", "b">>),
                            "NO ACTION", "NO ACTION")>>)
         \o If("badForeignKey" \in F,
               <<ForeignKey("T", Refs("T", <<"a">>), Refs("T", <<"a">>),
                            "NO ACTION", "NO ACTION")>>),
         "U"),
     indexes |-> MountAll(
         If(F \cap {"ixU.a", "uxU.a"} # {},
            <<Index("i", Refs("U", <<"a">>), "uxU.a" \in F)>>),
         "U")]

Build(F) ==
    If(F \cap {"empty", "noT"} = {}, <<BuildT(F)>>)
    \o If(F \cap {"empty", "noU"} = {}, <<BuildU(F)>>)

\* the sets of at most k features
RECURSIVE FeatureSets(_)
FeatureSets(k) ==
    IF k = 0 THEN {{}}
    ELSE LET P == FeatureSets(k - 1)
         IN  P \cup {p \cup {x} : p \in P, x \in Features}

Sides == {"from", "to", "both"}

\* the values the random suffix of a shadow table takes here
Nonces == {"n1", "n2"}

(***************************************************************************)
(* The database the statements run on: its schema, as SQLite keeps it.     *)
(***************************************************************************)
NoDefault(d) == IF d \in {Null, ""} THEN Null ELSE d

\* the schema of a database that holds exactly the snapshot defs
TableSchema(t) ==
    [table |-> Str(t.name),
     columns |-> [i \in DOMAIN t.columns |->
         LET c == t.columns[i]
             fks == SelectSeq(t.foreignKeys, LAMBDA f :
                        Len(f.localColumns) = 1 /\ f.localColumns[1].name = c.name)
         IN  [name |-> c.name, type |-> c.type, notNull |-> c.notNull,
              autoIncrement |-> c.autoIncrement, default |-> NoDefault(c.defaultValue),
              ref |-> IF fks = <<>> THEN NoReference ELSE Reference(fks[1])]],
     primaryKey |-> Names(t.primaryKey),
     foreignKeys |->
         LET multi == SelectSeq(t.foreignKeys, LAMBDA f : Len(f.localColumns) > 1)
         IN  [i \in DOMAIN multi |->
                 [local |-> Names(multi[i].localColumns),
                  table |-> multi[i].foreignTable,
                  foreign |-> Names(multi[i].foreignColumns),
                  onDelete |-> multi[i].onDelete, onUpdate |-> multi[i].onUpdate]],
     uniques |-> [i \in DOMAIN t.uniques |-> Names(t.uniques[i].columns)]]

SchemaOf(defs) ==
    [tables |-> [i \in DOMAIN defs |-> TableSchema(defs[i])],
     indexes |-> Map(allIndexes(defs), LAMBDA index :
         [index |-> index.name, table |-> Str(index.owner),
          unique |-> index.unique, columns |-> Names(index.columns)])]

DbHasTable(d, name) == \E i \in DOMAIN d.tables : d.tables[i].table = name

OnTable(d, name, Change(_)) ==
    [d EXCEPT !.tables = [i \in DOMAIN d.tables |->
        IF d.tables[i].table = name THEN Change(d.tables[i]) ELSE d.tables[i]]]

ColumnOfDef(def, ref) ==
    [name |-> def.name, type |-> def.type, notNull |-> def.notNull,
     autoIncrement |-> def.autoIncrement, default |-> NoDefault(def.default),
     ref |-> ref]

\* the schema after one statement
Exec(d, stmt) ==
    CASE stmt.kind = "DROP INDEX" ->
           [d EXCEPT !.indexes = SelectSeq(@, LAMBDA x : x.index # stmt.index)]
      [] stmt.kind = "CREATE INDEX" ->
           IF \E i \in DOMAIN d.indexes : d.indexes[i].index = stmt.index
           THEN d
           ELSE [d EXCEPT !.indexes = Append(@,
                    [index |-> stmt.index, table |-> stmt.table, unique |-> FALSE,
                     columns |-> stmt.columns])]
      [] stmt.kind = "CREATE TABLE" ->
           [d EXCEPT !.tables = Append(@,
               [table |-> stmt.table, columns |-> stmt.columns,
                primaryKey |-> stmt.primaryKey, foreignKeys |-> stmt.foreignKeys,
                uniques |-> stmt.uniques])]
      [] stmt.kind = "DROP TABLE" ->
           [tables |-> SelectSeq(d.tables, LAMBDA x : x.table # stmt.table),
            indexes |-> SelectSeq(d.indexes, LAMBDA x : x.table # stmt.table)]
      [] stmt.kind = "RENAME" ->
           [tables |-> [i \in DOMAIN d.tables |->
                IF d.tables[i].table = stmt.table
                THEN [d.tables[i] EXCEPT !.table = stmt.to] ELSE d.tables[i]],
            indexes |-> [i \in DOMAIN d.indexes |->
                IF d.indexes[i].table = stmt.table
                THEN [d.indexes[i] EXCEPT !.table = stmt.to] ELSE d.indexes[i]]]
      [] stmt.kind = "ADD COLUMN" ->
           OnTable(d, stmt.table, LAMBDA x :
               [x EXCEPT !.columns = Append(@, ColumnOfDef(stmt.def, NoReference))])
      [] stmt.kind = "DROP COLUMN" ->
           OnTable(d, stmt.table, LAMBDA x :
               [x EXCEPT !.columns = SelectSeq(@, LAMBDA c : c.name # stmt.column)])
      [] stmt.kind = "ALTER COLUMN" ->
           OnTable(d, stmt.table, LAMBDA x :
               [x EXCEPT !.columns = [i \in DOMAIN @ |->
                   IF @[i].name = stmt.column
                   THEN ColumnOfDef(stmt.def, stmt.ref) ELSE @[i]]])
      [] OTHER -> d

RECURSIVE ExecAll(_, _)
ExecAll(d, stmts) ==
    IF stmts = <<>> THEN d ELSE ExecAll(Exec(d, Head(stmts)), Tail(stmts))

\* runAll: operations.flatMap((op) => op.sql)
Lines(operations) == FlatMap(operations, LAMBDA op : op.sql)

\* the statements runAll writes itself
PragmaOff == [kind |-> "PRAGMA", pragma |-> "foreign_keys", value |-> "off"]

Begin == [kind |-> "BEGIN"]

Commit == [kind |-> "COMMIT"]

ClientCall(method, sql) == [method |-> method, sql |-> sql]

\* queryRemoteSchema: the three catalog queries, in one batch
queryRemoteSchema ==
    <<ClientCall("batch", <<[kind |-> "SELECT", pragma |-> "table_info"],
                           [kind |-> "SELECT", pragma |-> "foreign_key_list"],
                           [kind |-> "SELECT", pragma |-> "index_list"]>>)>>

\* faulty variant: enforcement is switched off inside the transaction only
runAll_PragmaInside(operations) ==
    <<ClientCall("executeMultiple",
                 <<Begin, PragmaOff>> \o Lines(operations) \o <<Commit>>)>>

\* the calls runAll makes on the client
runAll(operations) ==
    <<ClientCall("execute", <<PragmaOff>>),
      ClientCall("executeMultiple",
                 <<PragmaOff, Begin>> \o Lines(operations) \o <<Commit>>)>>

\* the statements of the calls from the k-th on, in the order they are sent
Sent(calls, k) == Flatten([i \in 1..(Len(calls) - k + 1) |-> calls[i + k - 1].sql])

(***************************************************************************)
(* The state machine: a caller holds two snapshots and calls differences.  *)
(***************************************************************************)
\* no method of the builder called yet
NoCall == [op |-> "none", table |-> Null, arg |-> Null, threw |-> FALSE, error |-> Null]

NoResult == [threw |-> FALSE, error |-> Null, operations |-> <<>>,
             summary |-> EmptySummary]

Init ==
    /\ \E S \in FeatureSets(MaxFeatures) : \E side \in [S -> Sides] :
           LET Ff == {x \in S : side[x] # "to"}
               Ft == {x \in S : side[x] # "from"}
           IN  /\ ValidFeatures(Ff)
               /\ ValidFeatures(Ft)
               /\ from = Build(Ff)
               /\ to = Build(Ft)
    /\ options = [creationMode |-> FALSE]
    /\ pc = "input"
    /\ result = NoResult
    /\ db = SchemaOf(from)
    /\ client = queryRemoteSchema
    /\ snapshot = <<>>
    /\ call = NoCall

\* how many random suffixes the call draws
Draws(f, t, opts) ==
    IF creationModeViolated(f, opts) \/ ~(verified(f) /\ verified(t)) THEN 0
    ELSE Len(getTablesToRecreate(f, t).tablesToRecreate)

\* faulty variant: the column lists of the foreign keys are sorted in place
\* (columns.sort() without the copy that map() makes)
Differences_SortInPlace(creationMode) ==
    LET sorted(columns) ==
            LET names == SortList(Map(columns, LAMBDA c : Str(c.name)))
            IN  [i \in DOMAIN columns |->
                    CHOOSE c \in Range(columns) : Str(c.name) = names[i]]
        inPlace(defs) ==
            [i \in DOMAIN defs |->
                [defs[i] EXCEPT !.foreignKeys = [j \in DOMAIN @ |->
                    [@[j] EXCEPT !.localColumns = sorted(@),
                                 !.foreignColumns = sorted(@)]]]]
    IN  /\ pc = "input"
        /\ options' = [creationMode |-> creationMode]
        /\ \E nonces \in [1..Draws(from, to, options') -> Nonces] :
               result' = differences(from, to, options', nonces)
        /\ pc' = IF result'.threw THEN "threw" ELSE "planned"
        /\ from' = (IF creationModeViolated(from, options') THEN from ELSE inPlace(from))
        /\ to' = (IF creationModeViolated(from, options') THEN to ELSE inPlace(to))
        /\ UNCHANGED <<db, client, snapshot, call>>

Differences(creationMode) ==
    /\ pc = "input"
    /\ options' = [creationMode |-> creationMode]
    /\ \E nonces \in [1..Draws(from, to, options') -> Nonces] :
           result' = differences(from, to, options', nonces)
    /\ pc' = IF result'.threw THEN "threw" ELSE "planned"
    /\ UNCHANGED <<from, to, db, client, snapshot, call>>

\* the caller calls differences once more on the same snapshots and options
DifferencesAgain ==
    /\ pc = "planned"
    /\ \E nonces \in [1..Draws(from, to, options) -> Nonces] :
           result' = differences(from, to, options, nonces)
    /\ pc' = IF result'.threw THEN "threw" ELSE "replanned"
    /\ UNCHANGED <<from, to, options, db, client, snapshot, call>>

\* pushDrizzleSchema after differences returned: nothing is sent for an empty
\* plan, otherwise runAll sends every line in one batch
Execute ==
    /\ pc \in {"planned", "replanned"}
    /\ client' = IF Len(result.operations) = 0 THEN client
                 ELSE client \o runAll(result.operations)
    /\ db' = ExecAll(db, Sent(client', Len(client) + 1))
    /\ pc' = "done"
    /\ UNCHANGED <<from, to, options, result, snapshot, call>>

Next ==
    \/ \E creationMode \in BOOLEAN : Differences(creationMode)
    \/ DifferencesAgain
    \/ Execute

Spec == Init /\ [][Next]_vars

(***************************************************************************)
(* The same calls on snapshots that differ in their constraints only: the  *)
(* unique constraints of T and the multi-column foreign key of U.          *)
(***************************************************************************)
\* how many unique constraints a table declares here
MaxUniques == 2

\* the column lists of a constraint
ConstraintColumns == {<<"a">>, <<"b">>, <<"a", "b">>, <<"b", "a">>}

RECURSIVE ListsOver(_, _)
ListsOver(S, n) ==
    IF n = 0 THEN {<<>>}
    ELSE ListsOver(S, n - 1)
         \cup {Append(l, x) : l \in {m \in ListsOver(S, n - 1) : Len(m) = n - 1}, x \in S}

\* the lists of columns of T that U's foreign key on (a, b) targets, if any
Pairings == {<<>>, <<<<"a", "b">>>>, <<<<"b", "a">>>>}

\* T(a, b) with the unique constraints on the given column lists
TableT(uniques) ==
    [BuildT({"T.b"}) EXCEPT !.uniques =
        MountAll([i \in DOMAIN uniques |-> Unique(Refs("T", uniques[i]))], "T")]

\* U(a, b) with a foreign key from (a, b) to each of the given column lists
TableU(pairings) ==
    [BuildU({"U.b"}) EXCEPT !.foreignKeys =
        MountAll([i \in DOMAIN pairings |->
                     ForeignKey("T", Refs("T", pairings[i]), Refs("U", <<"a", "b">>),
                                "NO ACTION", "NO ACTION")], "U")]

ConstraintsInit ==
    /\ \E uf \in ListsOver(ConstraintColumns, MaxUniques) :
       \E ut \in ListsOver(ConstraintColumns, MaxUniques) :
       \E pf \in Pairings : \E pt \in Pairings :
           /\ from = <<TableT(uf), TableU(pf)>>
           /\ to = <<TableT(ut), TableU(pt)>>
    /\ options = [creationMode |-> FALSE]
    /\ pc = "input"
    /\ result = NoResult
    /\ db = SchemaOf(from)
    /\ client = queryRemoteSchema
    /\ snapshot = <<>>
    /\ call = NoCall

Constraints == ConstraintsInit /\ [][Next]_vars

(***************************************************************************)
(* Building a snapshot: the methods of Definitions and Table a caller      *)
(* builds a snapshot with.  A method returns the snapshot (or the table)   *)
(* it leaves and whether it threw.                                         *)
(***************************************************************************)
Returns(value) == [threw |-> FALSE, error |-> Null, value |-> value]

Throws(error, value) == [threw |-> TRUE, error |-> error, value |-> value]

\* Map.prototype.set: an existing key keeps its place and takes the new value
MapSet(s, x) ==
    IF HasName(s, x.name)
    THEN [i \in DOMAIN s |-> IF s[i].name = x.name THEN x ELSE s[i]]
    ELSE Append(s, x)

\* Definitions.addTable
addTable(d, table) ==
    IF HasName(d, table.name) THEN Throws("Duplicate table", d)
    ELSE Returns(MapSet(d, table))

\* Definitions.createTable
createTable(d, name) == addTable(d, Table(name))

\* Table.addColumn
addColumn(table, column) ==
    IF HasName(table.columns, column.name) THEN Throws("Duplicate column", table)
    ELSE Returns([table EXCEPT !.columns = MapSet(@, mount(column, table.name))])

\* Table.addIndex
addIndex(table, index) ==
    Returns([table EXCEPT !.indexes = MapSet(@, mount(index, table.name))])

\* Table.createIndex: getColumn throws for a name the table lacks
createIndex(table, name, columns, unique) ==
    IF \E i \in DOMAIN columns : ~HasName(table.columns, columns[i])
    THEN Throws("Column not found", table)
    ELSE addIndex(table, Index(name, Refs(table.name, columns), unique))

\* faulty variant: the key is pushed before it is verified
addForeignKey_PushFirst(table, foreignKey) ==
    LET fk == mount(foreignKey, table.name)
        pushed == [table EXCEPT !.foreignKeys = Append(@, fk)]
    IN  IF ~ForeignKeyVerify(fk) THEN Throws("ForeignKey.verify", pushed)
        ELSE Returns(pushed)

\* Table.addForeignKey
addForeignKey(table, foreignKey) ==
    LET fk == mount(foreignKey, table.name)
    IN  IF ~ForeignKeyVerify(fk) THEN Throws("ForeignKey.verify", table)
        ELSE Returns([table EXCEPT !.foreignKeys = Append(@, fk)])

\* this.primaryKey[index] = column, on an array that may be shorter
ArraySet(a, index, x) ==
    [k \in 1..(IF index > Len(a) THEN index ELSE Len(a)) |->
        IF k = index THEN x ELSE IF k <= Len(a) THEN a[k] ELSE Undefined]

\* faulty variant: the slot is not looked at before it is written
setColumnAsPrimaryKey_Overwrite(table, column, i) ==
    IF i - 1 < 0 THEN Throws("Index must be greater than 0", table)
    ELSE Returns([table EXCEPT !.primaryKey = ArraySet(@, i, column)])

\* Table.setColumnAsPrimaryKey; slot i of the call is element i of the sequence
setColumnAsPrimaryKey(table, column, i) ==
    IF i - 1 < 0 THEN Throws("Index must be greater than 0", table)
    ELSE IF i <= Len(table.primaryKey) /\ table.primaryKey[i] # Undefined
    THEN Throws("Primary key already set", table)
    ELSE Returns([table EXCEPT !.primaryKey = ArraySet(@, i, column)])

(***************************************************************************)
(* The state machine of a caller that builds a snapshot call by call; call *)
(* is the latest call of a method and how it ended.                        *)
(***************************************************************************)
\* the snapshot once the object behind the reference old answers to the
\* reference new: every list that holds the object shows its new name
Rereferenced(d, old, new) ==
    LET re(columns) == [n \in DOMAIN columns |->
                           IF columns[n] = old THEN new ELSE columns[n]]
    IN  [i \in DOMAIN d |->
            [d[i] EXCEPT
                !.primaryKey = re(@),
                !.uniques = [j \in DOMAIN @ |-> [@[j] EXCEPT !.columns = re(@)]],
                !.indexes = [j \in DOMAIN @ |-> [@[j] EXCEPT !.columns = re(@)]],
                !.foreignKeys = [j \in DOMAIN @ |->
                    [@[j] EXCEPT !.localColumns = re(@), !.foreignColumns = re(@)]]]]

\* Table.renameColumn: getColumn, delete, assign the name, addColumn
renameColumn(d, tn, oldName, newName) ==
    IF ~HasName(GetName(d, tn).columns, oldName) THEN Throws("Column not found", d)
    ELSE LET column == [GetName(GetName(d, tn).columns, oldName) EXCEPT !.name = newName]
             deleted == [i \in DOMAIN d |->
                 IF d[i].name = tn
                 THEN [d[i] EXCEPT !.columns = SelectSeq(@, LAMBDA c : c.name # oldName)]
                 ELSE d[i]]
             renamed == Rereferenced(deleted, Ref(tn, oldName), Ref(tn, newName))
             added == addColumn(GetName(renamed, tn), column)
         IN  [added EXCEPT !.value = MapSet(renamed, added.value)]

\* the snapshot once the table object named oldName is named newName: its
\* elements and every reference to it or to its columns show the new name
Reowned(d, oldName, newName) ==
    LET own(o) == IF o = oldName THEN newName ELSE o
        re(columns) == [n \in DOMAIN columns |->
                           [columns[n] EXCEPT !.owner = own(@)]]
    IN  [i \in DOMAIN d |->
            [d[i] EXCEPT
                !.name = own(@),
                !.columns = re(@),
                !.primaryKey = re(@),
                !.uniques = [j \in DOMAIN @ |->
                    [@[j] EXCEPT !.owner = own(@), !.columns = re(@)]],
                !.indexes = [j \in DOMAIN @ |->
                    [@[j] EXCEPT !.owner = own(@), !.columns = re(@)]],
                !.foreignKeys = [j \in DOMAIN @ |->
                    [@[j] EXCEPT !.owner = own(@), !.foreignTable = own(@),
                                 !.localColumns = re(@), !.foreignColumns = re(@)]]]]

\* Definitions.renameTable: getTable, delete, assign the name, addTable
renameTable(d, oldName, newName) ==
    IF ~HasName(d, oldName) THEN Throws("Table not found", d)
    ELSE LET table == Reowned(<<GetName(d, oldName)>>, oldName, newName)[1]
             deleted == Reowned(SelectSeq(d, LAMBDA x : x.name # oldName),
                                oldName, newName)
         IN  addTable(deleted, table)

TableNames == {"T", "U"}

ColumnNames == {"a", "b"}

\* the Column objects a caller adds
ColumnsToAdd ==
    {Column("a", "TEXT", FALSE, Null, FALSE), Column("a", "INTEGER", FALSE, Null, FALSE),
     Column("b", "INTEGER", FALSE, Null, FALSE)}

ColumnNameLists == {<<"a">>, <<"b">>}

\* the Column objects that exist: those the tables of the snapshot hold
ColumnsOfSnapshot(d) ==
    UNION {{Ref(d[i].name, d[i].columns[k].name) : k \in DOMAIN d[i].columns} :
              i \in DOMAIN d}

\* the column lists of the foreign keys a caller makes
ColumnLists(d) ==
    {l \in {<<>>} \cup UNION {{<<Ref(tn, "a")>>, <<Ref(tn, "a"), Ref(tn, "b")>>,
                               <<Ref(tn, "a"), Ref(tn, "a")>>} : tn \in TableNames} :
        Range(l) \subseteq ColumnsOfSnapshot(d)}

ForeignKeysToAdd(d) ==
    {ForeignKey(ft, fc, lc, "NO ACTION", "NO ACTION") :
        ft \in {d[i].name : i \in DOMAIN d}, fc \in ColumnLists(d), lc \in ColumnLists(d)}

RECURSIVE Size(_)
Size(d) ==
    IF d = <<>> THEN 0
    ELSE 1 + Len(Head(d).columns) + Len(Head(d).primaryKey) + Len(Head(d).foreignKeys)
           + Len(Head(d).uniques) + Len(Head(d).indexes) + Size(Tail(d))

Call(op, table, arg, out) ==
    [op |-> op, table |-> table, arg |-> arg, threw |-> out.threw, error |-> out.error]

BuilderInit ==
    /\ from = <<>>
    /\ to = <<>>
    /\ options = [creationMode |-> FALSE]
    /\ pc = "building"
    /\ result = NoResult
    /\ db = SchemaOf(<<>>)
    /\ client = <<>>
    /\ snapshot = <<>>
    /\ call = NoCall

\* a call of a method of the table tn of the snapshot, which leaves out.value
OnTableOf(tn, op, arg, out) ==
    /\ snapshot' = MapSet(snapshot, out.value)
    /\ call' = Call(op, tn, arg, out)
    /\ UNCHANGED <<from, to, options, pc, result, db, client>>

CreateTable(name) ==
    /\ pc = "building" /\ Size(snapshot) <= MaxSize
    /\ LET out == createTable(snapshot, name)
       IN  /\ snapshot' = out.value
           /\ call' = Call("createTable", Null, name, out)
    /\ UNCHANGED <<from, to, options, pc, result, db, client>>

AddColumn(tn, column) ==
    /\ pc = "building" /\ Size(snapshot) <= MaxSize /\ HasName(snapshot, tn)
    /\ OnTableOf(tn, "addColumn", column, addColumn(GetName(snapshot, tn), column))

CreateIndex(tn, columns, unique) ==
    /\ pc = "building" /\ Size(snapshot) <= MaxSize /\ HasName(snapshot, tn)
    /\ OnTableOf(tn, "createIndex", [name |-> "i", columns |-> columns, unique |-> unique],
                 createIndex(GetName(snapshot, tn), "i", columns, unique))

AddForeignKey(tn, fk) ==
    /\ pc = "building" /\ Size(snapshot) <= MaxSize /\ HasName(snapshot, tn)
    /\ OnTableOf(tn, "addForeignKey", fk, addForeignKey(GetName(snapshot, tn), fk))

SetColumnAsPrimaryKey(tn, column, i) ==
    /\ pc = "building" /\ Size(snapshot) <= MaxSize /\ HasName(snapshot, tn)
    /\ OnTableOf(tn, "setColumnAsPrimaryKey", [column |-> column, slot |-> i],
                 setColumnAsPrimaryKey(GetName(snapshot, tn), column, i))

\* after a rename that failed on a duplicate, two objects bear one name; the
\* snapshot here tells objects apart by their names, so the builder is
\* followed no further
AfterRename(out) ==
    IF out.threw /\ out.error \in {"Duplicate column", "Duplicate table"}
    THEN "failed" ELSE "building"

RenameColumn(tn, oldName, newName) ==
    /\ pc = "building" /\ Size(snapshot) <= MaxSize /\ HasName(snapshot, tn)
    /\ LET out == renameColumn(snapshot, tn, oldName, newName)
       IN  /\ snapshot' = out.value
           /\ call' = Call("renameColumn", tn, [old |-> oldName, new |-> newName], out)
           /\ pc' = AfterRename(out)
    /\ UNCHANGED <<from, to, options, result, db, client>>

RenameTable(oldName, newName) ==
    /\ pc = "building" /\ Size(snapshot) <= MaxSize
    /\ LET out == renameTable(snapshot, oldName, newName)
       IN  /\ snapshot' = out.value
           /\ call' = Call("renameTable", Null, [old |-> oldName, new |-> newName], out)
           /\ pc' = AfterRename(out)
    /\ UNCHANGED <<from, to, options, result, db, client>>

BuilderNext ==
    \/ \E name \in TableNames : CreateTable(name)
    \/ \E tn \in TableNames : \E column \in ColumnsToAdd : AddColumn(tn, column)
    \/ \E tn \in TableNames : \E columns \in ColumnNameLists : \E unique \in BOOLEAN :
           CreateIndex(tn, columns, unique)
    \/ \E tn \in TableNames : \E fk \in ForeignKeysToAdd(snapshot) : AddForeignKey(tn, fk)
    \/ \E tn \in TableNames : \E column \in ColumnsOfSnapshot(snapshot) : \E i \in 0..MaxSlot :
           SetColumnAsPrimaryKey(tn, column, i)
    \/ \E tn \in TableNames : \E oldName \in ColumnNames : \E newName \in ColumnNames :
           RenameColumn(tn, oldName, newName)
    \/ \E oldName \in TableNames : \E newName \in TableNames : RenameTable(oldName, newName)

Builder == BuilderInit /\ [][BuilderNext]_vars

(***************************************************************************)
(* The claims.                                                             *)
(***************************************************************************)
\* the call has returned or thrown
Called == pc # "input"

Returned == Called /\ ~result.threw

Ops == result.operations

OpsOf(cat) == SelectSeq(Ops, LAMBDA op : op.title.cat = cat)

\* a snapshot that satisfies every invariant of the data model, those that
\* Table.verify does not check included
ValidSnapshot(defs) ==
    /\ verified(defs)
    /\ \A i \in DOMAIN defs : \A j \in DOMAIN defs[i].indexes :
           IndexVerify(defs[i].indexes[j])

UniqueIndexIn(defs) ==
    \E i \in DOMAIN defs : \E j \in DOMAIN defs[i].indexes : defs[i].indexes[j].unique

EmptyPlan == Ops = <<>> /\ result.summary = EmptySummary

\* C1 as stated: differences(S, S) of a valid snapshot S is empty, operations
\* and summary, also when S holds indexes flagged unique.
C1_EqualSnapshotsEmpty ==
    (Called /\ ~options.creationMode /\ from = to /\ ValidSnapshot(from))
        => (~result.threw /\ EmptyPlan)

\* C1 amended: differences(S, S) of a valid snapshot S none of whose indexes
\* is flagged unique returns no operation and an empty summary.
C1_EqualSnapshotsEmptyWithoutUniqueIndex ==
    (Called /\ ~options.creationMode /\ from = to /\ ValidSnapshot(from)
        /\ ~UniqueIndexIn(from))
        => (~result.threw /\ EmptyPlan)

C1_Witness ==
    /\ pc = "planned" /\ ~options.creationMode /\ from = to /\ ValidSnapshot(from)
    /\ ~UniqueIndexIn(from)
    /\ \E i \in DOMAIN from : from[i].indexes # <<>> /\ from[i].foreignKeys # <<>>
    /\ EmptyPlan

(***************************************************************************)
(* Round trip: the schema the statements leave against the schema of `to`, *)
(* attribute by attribute, order of declaration aside.                     *)
(***************************************************************************)
Canonical(schema) ==
    [tables |-> {[table |-> x.table,
                  columns |-> Range(x.columns),
                  primaryKey |-> x.primaryKey,
                  foreignKeys |-> Range(x.foreignKeys),
                  uniques |-> {Range(u) : u \in Range(x.uniques)}]
                 : x \in Range(schema.tables)},
     indexes |-> Range(schema.indexes)]

\* C2 as stated: with creationMode off, the statements applied in order to a
\* database whose schema is `from` leave a schema equal to `to`: tables,
\* columns, primary keys, uniques, foreign keys and indexes (name, table,
\* unique flag, ordered columns).
C2_RoundTrip ==
    (pc = "done" /\ ~options.creationMode /\ ValidSnapshot(from) /\ ValidSnapshot(to))
        => Canonical(db) = Canonical(SchemaOf(to))

\* the nine categories in the order of emission
Categories ==
    <<"Remove index", "Remove foreign key", "Create table", "Remove table",
      "Add column", "Remove column", "Recreate table", "Add foreign key",
      "Add index">>

CategoryRank(op) == CHOOSE k \in DOMAIN Categories : Categories[k] = op.title.cat

\* C3: in every returned operation list the operations come in the order of
\* the nine categories: none of an earlier category follows one of a later.
C3_CategoryOrder ==
    Called => \A i, j \in DOMAIN Ops :
                  i < j => CategoryRank(Ops[i]) <= CategoryRank(Ops[j])

C3_Witness ==
    /\ pc = "planned"
    /\ OpsOf("Remove index") # <<>>
    /\ OpsOf("Remove foreign key") # <<>>
    /\ OpsOf("Recreate table") # <<>>
    /\ OpsOf("Add foreign key") # <<>>
    /\ OpsOf("Add index") # <<>>

CreationModeError == "Creation mode is not supported for existing tables"

\* C4: in creationMode a call whose `from` holds a table throws and returns
\* no operation; with an empty `from` it does not throw that error.
C4_CreationModeNeedsEmptyFrom ==
    (Called /\ options.creationMode)
        => /\ Len(from) > 0 => (result.threw /\ Ops = <<>>)
           /\ Len(from) = 0 => result.error # CreationModeError
           /\ (Len(from) = 0 /\ verified(to)) => ~result.threw

C4_Witness ==
    /\ pc = "threw" /\ options.creationMode /\ Len(from) = 1
    /\ verified(from) /\ verified(to)
    /\ result.error = CreationModeError

\* C5: in creationMode the plan holds no add-foreign-key operation, whatever
\* foreign keys the tables of `to` declare.
C5_NoForeignKeyInCreationMode ==
    (Called /\ options.creationMode) => OpsOf("Add foreign key") = <<>>

C5_Witness ==
    /\ pc = "planned" /\ options.creationMode
    /\ allSingleColumnForeignKeys(to) # <<>>
    /\ OpsOf("Create table") # <<>>

\* a constraint of the snapshot holds a column of another table than its own
\* (for the target columns of a foreign key: than its target table)
StrayColumnIn(defs) ==
    \E i \in DOMAIN defs :
        \/ \E x \in Range(defs[i].indexes) : \E c \in Range(x.columns) :
               c.owner # defs[i].name
        \/ \E x \in Range(defs[i].uniques) : \E c \in Range(x.columns) :
               c.owner # defs[i].name
        \/ \E x \in Range(defs[i].foreignKeys) :
               \/ \E c \in Range(x.localColumns) : c.owner # defs[i].name
               \/ \E c \in Range(x.foreignColumns) : c.owner # x.foreignTable

\* C6 as stated: differences throws, with no operation produced, whenever a
\* snapshot holds an index, a unique or a foreign key with a column that is
\* not of its owning (or target) table.
C6_StrayColumnsRejected ==
    (Called /\ (StrayColumnIn(from) \/ StrayColumnIn(to)))
        => (result.threw /\ Ops = <<>>)

\* the columns the `to` version of a table has and its `from` version lacks
NewColumns(name) ==
    {c \in Range(GetName(to, name).columns) :
        \A d \in Range(GetName(from, name).columns) : d.name # c.name}

InBoth == {x.name : x \in {y \in Range(from) : \E z \in Range(to) : z.name = y.name}}

ReasonsOf(name) ==
    {r.reason : r \in UNION {Range(x.reason) :
        x \in {y \in Range(result.summary.recreateReasons) : y.name = name}}}

RecreatesOf(name) ==
    SelectSeq(Ops, LAMBDA op : op.title.cat = "Recreate table" /\ op.title.table = name)

\* C7: a table of both snapshots whose `to` version has a new column is
\* recreated with the reason 'added columns'; no add-column operation is ever
\* emitted and summary.addedColumns is always empty.
C7_NewColumnRecreates ==
    Returned =>
        /\ \A name \in InBoth :
               NewColumns(name) # {} =>
                   /\ Has(result.summary.recreatedTables, name)
                   /\ "added columns" \in ReasonsOf(name)
                   /\ Len(RecreatesOf(name)) = 1
        /\ OpsOf("Add column") = <<>>
        /\ result.summary.addedColumns = <<>>

C7_Witness ==
    /\ pc = "planned"
    /\ \E name \in InBoth : NewColumns(name) # {} /\ Len(RecreatesOf(name)) = 1
    /\ \E name \in InBoth : NewColumns(name) = {}

\* the snapshots differ in the default of column k of table i and nowhere else
OnlyDefaultDiffers(i, k) ==
    /\ i \in DOMAIN from /\ i \in DOMAIN to
    /\ k \in DOMAIN from[i].columns /\ k \in DOMAIN to[i].columns
    /\ from[i].columns[k].defaultValue # to[i].columns[k].defaultValue
    /\ to = [from EXCEPT ![i].columns[k].defaultValue = to[i].columns[k].defaultValue]

OneRecreateAndNoCascade(name) ==
    /\ Len(OpsOf("Recreate table")) = 1
    /\ Len(RecreatesOf(name)) = 1
    /\ \A op \in Range(OpsOf("Remove foreign key")) \cup Range(OpsOf("Add foreign key")) :
           op.title.table = name

\* C8 as stated: when the snapshots differ only in the default of one column
\* of T, the plan holds exactly one recreate, that of T, and no remove- or
\* add-foreign-key operation on another table.
C8_DefaultChangeDoesNotCascade ==
    \A i \in DOMAIN from : \A k \in DOMAIN from[i].columns :
        (Returned /\ ValidSnapshot(from) /\ ValidSnapshot(to) /\ OnlyDefaultDiffers(i, k))
            => OneRecreateAndNoCascade(from[i].name)

\* C8 amended: the same, when no table of `from` has an index flagged unique.
C8_DefaultChangeDoesNotCascadeWithoutUniqueIndex ==
    \A i \in DOMAIN from : \A k \in DOMAIN from[i].columns :
        (Returned /\ ValidSnapshot(from) /\ ValidSnapshot(to) /\ OnlyDefaultDiffers(i, k)
            /\ ~UniqueIndexIn(from))
            => OneRecreateAndNoCascade(from[i].name)

C8_Witness ==
    /\ pc = "planned" /\ ValidSnapshot(from) /\ ValidSnapshot(to) /\ ~UniqueIndexIn(from)
    /\ \E i \in DOMAIN from : \E k \in DOMAIN from[i].columns :
           /\ OnlyDefaultDiffers(i, k)
           /\ OneRecreateAndNoCascade(from[i].name)
           /\ \E x \in Range(from) : \E fk \in Range(x.foreignKeys) :
                  fk.foreignTable = from[i].name /\ Len(fk.localColumns) = 1

OnlyInFrom == {x.name : x \in {y \in Range(from) : \A z \in Range(to) : z.name # y.name}}

IndexNamesOf(name) == {x.name : x \in Range(GetName(from, name).indexes)}

\* an operation that concerns the table, by its title or by its statements
NamesTable(op, name) ==
    \/ op.title.table = name
    \/ \E stmt \in Range(op.sql) : stmt.kind # "DROP INDEX" /\ stmt.table = <<name>>

DropsIndexOf(op, name) ==
    op.title.cat = "Remove index" /\ op.title.name \in IndexNamesOf(name)

OneRemoveTable(name) ==
    Len(SelectSeq(Ops, LAMBDA op : op.title.cat = "Remove table" /\ NamesTable(op, name))) = 1

\* C9 as stated: a table present only in `from` gets exactly one remove-table
\* operation and no operation of another category refers to it or to
\* anything it owns.
C9_RemovedTableOnlyRemoved ==
    Returned => \A name \in OnlyInFrom :
        /\ OneRemoveTable(name)
        /\ \A op \in Range(Ops) :
               op.title.cat # "Remove table" =>
                   ~NamesTable(op, name) /\ ~DropsIndexOf(op, name)

\* C9 amended: a table present only in `from` gets exactly one remove-table
\* operation and no operation of another category, remove-index aside, refers
\* to it or to anything it owns.
C9_RemovedTableOnlyRemovedIndexesAside ==
    Returned => \A name \in OnlyInFrom :
        /\ OneRemoveTable(name)
        /\ \A op \in Range(Ops) :
               op.title.cat \notin {"Remove table", "Remove index"} =>
                   ~NamesTable(op, name)

C9_Witness ==
    /\ pc = "planned"
    /\ \E name \in OnlyInFrom :
           /\ OneRemoveTable(name)
           /\ GetName(from, name).foreignKeys # <<>>
           /\ Len(Ops) > 1

\* the snapshots differ in the column list of index j of table i and nowhere else
OnlyIndexColumnsDiffer(i, j) ==
    /\ i \in DOMAIN from /\ i \in DOMAIN to
    /\ j \in DOMAIN from[i].indexes /\ j \in DOMAIN to[i].indexes
    /\ from[i].indexes[j].columns # to[i].indexes[j].columns
    /\ to = [from EXCEPT ![i].indexes[j].columns = to[i].indexes[j].columns]

RemoveThenAdd(index) ==
    /\ Len(Ops) = 2
    /\ Ops[1].title = Title("Remove index", Null, index.name)
    /\ Ops[1].sql = <<[kind |-> "DROP INDEX", index |-> index.name]>>
    /\ Ops[2].title = Title("Add index", Null, index.name)
    /\ Ops[2].sql = <<[kind |-> "CREATE INDEX", index |-> index.name,
                       table |-> <<index.owner>>,
                       columns |-> [n \in DOMAIN index.columns |-> index.columns[n].name]]>>

\* C10 as stated: when the snapshots differ only in the ordered column list
\* of one index, the plan is one remove-index and one add-index operation for
\* that index, and no recreate.
C10_IndexColumnsChange ==
    \A i \in DOMAIN from : \A j \in DOMAIN from[i].indexes :
        (Returned /\ ValidSnapshot(from) /\ ValidSnapshot(to)
            /\ OnlyIndexColumnsDiffer(i, j))
            => RemoveThenAdd(to[i].indexes[j])

\* C10 amended: the same, when no table of `from` has an index flagged unique.
C10_IndexColumnsChangeWithoutUniqueIndex ==
    \A i \in DOMAIN from : \A j \in DOMAIN from[i].indexes :
        (Returned /\ ValidSnapshot(from) /\ ValidSnapshot(to)
            /\ OnlyIndexColumnsDiffer(i, j) /\ ~UniqueIndexIn(from))
            => RemoveThenAdd(to[i].indexes[j])

C10_Witness ==
    /\ pc = "planned" /\ ValidSnapshot(from) /\ ValidSnapshot(to) /\ ~UniqueIndexIn(from)
    /\ \E i \in DOMAIN from : \E j \in DOMAIN from[i].indexes :
           OnlyIndexColumnsDiffer(i, j) /\ RemoveThenAdd(to[i].indexes[j])

RemoveAt(s, j) == SubSeq(s, 1, j - 1) \o SubSeq(s, j + 1, Len(s))

\* `to` is `from` without foreign key j of table i
OnlyForeignKeyRemoved(i, j) ==
    /\ i \in DOMAIN from
    /\ j \in DOMAIN from[i].foreignKeys
    /\ to = [from EXCEPT ![i].foreignKeys = RemoveAt(@, j)]

\* P is recreated for its foreign keys, and U is neither recreated nor made
\* to drop a reference
RecreatedForFks(P, U) ==
    /\ Has(result.summary.recreatedTables, P)
    /\ "fks" \in ReasonsOf(P)
    /\ Len(RecreatesOf(P)) = 1
    /\ ~Has(result.summary.recreatedTables, U)
    /\ RecreatesOf(U) = <<>>
    /\ \A op \in Range(OpsOf("Remove foreign key")) : op.title.table # U

Targets(defs, R, T) ==
    \E fk \in Range(GetName(defs, R).foreignKeys) : fk.foreignTable = T

OnlyInTo == {x.name : x \in {y \in Range(to) : \A z \in Range(from) : z.name # y.name}}

TableOps(cats, name) ==
    SelectSeq(Ops, LAMBDA op : op.title.cat \in cats /\ op.title.table = name)

\* a list without repetition whose elements are those of S
Lists(l, S) == Range(l) = S /\ Len(l) = Cardinality(S)

RecreatedNames == {op.title.table : op \in Range(OpsOf("Recreate table"))}

\* C12: a table only in `to` gets exactly one create-table operation, a
\* table only in `from` exactly one remove-table operation, every recreate
\* is for a table of both; no table gets more than one of the three, the
\* summary lists exactly these three disjoint sets and the recreate reasons
\* are keyed by exactly the recreated tables.
C12_TableOperationsPartition ==
    Returned =>
        /\ \A name \in OnlyInTo : Len(TableOps({"Create table"}, name)) = 1
        /\ \A name \in OnlyInFrom : Len(TableOps({"Remove table"}, name)) = 1
        /\ RecreatedNames \subseteq InBoth
        /\ \A name \in OnlyInTo \cup OnlyInFrom \cup InBoth :
               Len(TableOps({"Create table", "Remove table", "Recreate table"}, name)) <= 1
        /\ Lists(result.summary.addedTables, OnlyInTo)
        /\ Lists(result.summary.removedTables, OnlyInFrom)
        /\ Lists(result.summary.recreatedTables, RecreatedNames)
        /\ Lists([i \in DOMAIN result.summary.recreateReasons |->
                      result.summary.recreateReasons[i].name], RecreatedNames)

C12_Witness ==
    /\ pc = "planned"
    /\ OnlyInTo # {}
    /\ RecreatedNames # {}
    /\ \A name \in OnlyInTo : Len(TableOps({"Create table"}, name)) = 1

\* a table name without the random suffix of a shadow table
Unsuffixed(name) == IF Len(name) = 3 THEN SubSeq(name, 1, 2) ELSE name

\* a statement with the shadow table's random suffix left out
Redacted(stmt) ==
    CASE stmt.kind \in {"CREATE TABLE", "RENAME"} ->
           [stmt EXCEPT !.table = Unsuffixed(stmt.table)]
      [] stmt.kind = "INSERT SELECT" -> [stmt EXCEPT !.into = Unsuffixed(stmt.into)]
      [] OTHER -> stmt

RedactedOperation(op) ==
    [title |-> op.title, sql |-> [k \in DOMAIN op.sql |-> Redacted(op.sql[k])]]

RedactedResult(r) ==
    [r EXCEPT !.operations = [i \in DOMAIN r.operations |->
                                  RedactedOperation(r.operations[i])]]

DuplicateCall ==
    \/ call'.op = "createTable" /\ HasName(snapshot, call'.arg)
    \/ /\ call'.op = "addColumn"
       /\ HasName(GetName(snapshot, call'.table).columns, call'.arg.name)
    \/ /\ call'.op = "createIndex"
       /\ HasName(GetName(snapshot, call'.table).indexes, call'.arg.name)

\* C14 as stated: creating a table, a column or an index under a name its
\* owner already has throws and leaves the owner as it was.
C14_DuplicateNamesRejected ==
    [][DuplicateCall => (call'.threw /\ snapshot' = snapshot)]_vars

Repeats(l) == \E i, j \in DOMAIN l : i < j /\ l[i] = l[j]

\* the foreign key breaks one of the rules of the data model on table tn
BadForeignKey(tn, fk) ==
    \/ fk.foreignTable = tn
    \/ Len(fk.foreignColumns) = 0
    \/ Len(fk.localColumns) = 0
    \/ Len(fk.foreignColumns) # Len(fk.localColumns)
    \/ \E c \in Range(fk.localColumns) : c.owner # tn
    \/ \E c \in Range(fk.foreignColumns) : c.owner # fk.foreignTable
    \/ Repeats(fk.localColumns)
    \/ Repeats(fk.foreignColumns)

\* the snapshot with table tn changed by Change and nothing else changed
WithTable(tn, Change(_)) ==
    [i \in DOMAIN snapshot |->
        IF snapshot[i].name = tn THEN Change(snapshot[i]) ELSE snapshot[i]]

\* C15: addForeignKey throws and leaves the table as it was when the key
\* targets its own table, has an empty column list, lists of different
\* lengths, a column of another table on either side or a repeated column;
\* otherwise the key is appended to the table's list, linked to the table.
C15_ForeignKeyChecked ==
    [][call'.op = "addForeignKey" =>
          IF BadForeignKey(call'.table, call'.arg)
          THEN call'.threw /\ snapshot' = snapshot
          ELSE /\ ~call'.threw
               /\ snapshot' = WithTable(call'.table, LAMBDA t :
                      [t EXCEPT !.foreignKeys =
                          Append(@, [call'.arg EXCEPT !.owner = call'.table])])]_vars

C15_Witness ==
    /\ call.op = "addForeignKey"
    /\ ~call.threw
    /\ ~BadForeignKey(call.table, call.arg)
    /\ GetName(snapshot, call.table).foreignKeys
           = <<[call.arg EXCEPT !.owner = call.table]>>

Occupied(pk, k) == k \in DOMAIN pk /\ pk[k] # Undefined

\* the primary key pk with slot N given to column, the slots between the old
\* end and N left unfilled
WithSlot(pk, N, column) ==
    [k \in 1..(IF N > Len(pk) THEN N ELSE Len(pk)) |->
        IF k = N THEN column ELSE IF k \in DOMAIN pk THEN pk[k] ELSE Undefined]

\* C16: setColumnAsPrimaryKey at slot N throws and leaves the primary key as
\* it was when N < 1 or slot N is occupied; otherwise slot N takes the
\* column, whatever the lower slots hold; no call overwrites an occupied slot
\* (a rename leaves the object in its slot and changes the name it shows).
C16_PrimaryKeySlots ==
    [][/\ call'.op = "setColumnAsPrimaryKey" =>
            IF call'.arg.slot < 1
               \/ Occupied(GetName(snapshot, call'.table).primaryKey, call'.arg.slot)
            THEN call'.threw /\ snapshot' = snapshot
            ELSE /\ ~call'.threw
                 /\ snapshot' = WithTable(call'.table, LAMBDA t :
                        [t EXCEPT !.primaryKey =
                            WithSlot(@, call'.arg.slot, call'.arg.column)])
       /\ \A i \in DOMAIN snapshot : \A k \in DOMAIN snapshot[i].primaryKey :
              (Occupied(snapshot[i].primaryKey, k)
                  /\ call'.op \notin {"renameColumn", "renameTable"}) =>
                  /\ i \in DOMAIN snapshot'
                  /\ Occupied(snapshot'[i].primaryKey, k)
                  /\ snapshot'[i].primaryKey[k] = snapshot[i].primaryKey[k]]_vars

C16_Witness ==
    /\ call.op = "setColumnAsPrimaryKey"
    /\ ~call.threw
    /\ call.arg.slot = 2
    /\ GetName(snapshot, call.table).primaryKey = <<Undefined, call.arg.column>>

RECURSIVE Concat(_)
Concat(ss) == IF ss = <<>> THEN <<>> ELSE Head(ss) \o Concat(Tail(ss))

\* the statements of the plan, operation by operation
PlanStatements == Concat([i \in DOMAIN Ops |-> Ops[i].sql])

\* what the client was sent after the catalog queries
Pushed == SubSeq(client, 2, Len(client))

PushedStatements == Concat([i \in DOMAIN Pushed |-> Pushed[i].sql])

\* C17: pushDrizzleSchema sends a non-empty plan by first switching
\* foreign-key enforcement off and then sending every statement of the plan,
\* in order, between one BEGIN and one COMMIT of a single call, with nothing
\* else; for an empty plan it sends nothing that changes the schema.
C17_PushedInOneTransaction ==
    pc = "done" =>
        IF Ops = <<>>
        THEN \A i \in DOMAIN client : \A stmt \in Range(client[i].sql) : stmt.kind = "SELECT"
        ELSE /\ Pushed # <<>>
             /\ \E k \in DOMAIN PushedStatements :
                    /\ \A j \in 1..k : PushedStatements[j] = PragmaOff
                    /\ PushedStatements
                           = SubSeq(PushedStatements, 1, k) \o <<Begin>> \o PlanStatements
                             \o <<Commit>>
                    /\ Pushed[Len(Pushed)].sql
                           = SubSeq(Pushed[Len(Pushed)].sql, 1,
                                    Len(Pushed[Len(Pushed)].sql) - Len(PlanStatements) - 2)
                             \o <<Begin>> \o PlanStatements \o <<Commit>>

C17_Witness ==
    /\ pc = "done"
    /\ Len(Ops) > 1
    /\ Len(PlanStatements) > Len(Ops)
    /\ Len(Pushed) = 2

\* the columns of to's version of a table that from's version lacks, in to's order
AddedColumns(name) ==
    SelectSeq(GetName(to, name).columns,
              LAMBDA c : \A d \in Range(GetName(from, name).columns) : d.name # c.name)

\* the column is in to's primary key or is the only column of a unique of `to`
MustBeUnique(name, c) ==
    \/ \E x \in Range(GetName(to, name).primaryKey) : x.name = c.name
    \/ \E u \in Range(GetName(to, name).uniques) :
           Len(u.columns) = 1 /\ u.columns[1].name = c.name

\* what the statements that bring a new column to the current table are
ColumnSteps(name, c) ==
    <<[kind |-> "ADD COLUMN", table |-> <<name>>, column |-> c.name]>>
    \o (IF MustBeUnique(name, c)
        THEN <<[kind |-> "UPDATE", table |-> <<name>>, column |-> c.name]>>
        ELSE <<>>)

ColumnNamesOf(name) ==
    [k \in DOMAIN GetName(to, name).columns |-> GetName(to, name).columns[k].name]

\* what the statements of a recreate are, the shadow table being named shadow
RecreateSteps(name, shadow) ==
    Concat([k \in DOMAIN AddedColumns(name) |-> ColumnSteps(name, AddedColumns(name)[k])])
    \o <<[kind |-> "CREATE TABLE", table |-> shadow, columns |-> ColumnNamesOf(name)],
         [kind |-> "INSERT SELECT", into |-> shadow, table |-> <<name>>,
          columns |-> ColumnNamesOf(name)],
         [kind |-> "DROP TABLE", table |-> <<name>>],
         [kind |-> "RENAME", table |-> shadow, to |-> <<name>>]>>

\* what a statement says, as far as the list above goes
Step(stmt) ==
    CASE stmt.kind = "ADD COLUMN" ->
           [kind |-> stmt.kind, table |-> stmt.table, column |-> stmt.def.name]
      [] stmt.kind = "CREATE TABLE" ->
           [kind |-> stmt.kind, table |-> stmt.table,
            columns |-> [k \in DOMAIN stmt.columns |-> stmt.columns[k].name]]
      [] OTHER -> stmt

\* C18: the statements of a recreate are, for each column of `to` that `from`
\* lacks, in to's order, one ADD COLUMN on the current table followed by one
\* UPDATE of the column exactly when it is in to's primary key or in a
\* single-column unique of `to`; then CREATE of the shadow table with to's
\* columns, INSERT..SELECT of to's columns from the current table into the
\* shadow table, DROP of the current table, RENAME of the shadow table to
\* the original name; and nothing else.
C18_RecreateStatements ==
    Returned => \A op \in Range(OpsOf("Recreate table")) :
        /\ op.sql # <<>>
        /\ op.sql[Len(op.sql)].kind = "RENAME"
        /\ op.sql[Len(op.sql)].table # <<op.title.table>>
        /\ [k \in DOMAIN op.sql |-> Step(op.sql[k])]
               = RecreateSteps(op.title.table, op.sql[Len(op.sql)].table)

C18_Witness ==
    /\ pc = "planned"
    /\ \E op \in Range(OpsOf("Recreate table")) :
           /\ \E k \in DOMAIN AddedColumns(op.title.table) :
                  MustBeUnique(op.title.table, AddedColumns(op.title.table)[k])
           /\ Len(op.sql) = 6


\* what a table declares, by names
KeyNames(table) == {c.name : c \in {x \in Range(table.primaryKey) : x # Undefined}}

UniqueSets(table) == {{c.name : c \in Range(u.columns)} : u \in Range(table.uniques)}

ForeignKeySet(table) ==
    {[localColumns |-> Names(fk.localColumns), foreignColumns |-> Names(fk.foreignColumns),
      foreignTable |-> fk.foreignTable, onDelete |-> fk.onDelete, onUpdate |-> fk.onUpdate] :
        fk \in Range(table.foreignKeys)}

UniqueIndexSet(table) ==
    {[name |-> x.name, columns |-> Names(x.columns)] :
        x \in {y \in Range(table.indexes) : y.unique}}

\* table T of both snapshots has a primary-key, unique-set, foreign-key-set,
\* unique-index or new-column change
StructuralChange(T) ==
    \/ KeyNames(GetName(from, T)) # KeyNames(GetName(to, T))
    \/ UniqueSets(GetName(from, T)) # UniqueSets(GetName(to, T))
    \/ ForeignKeySet(GetName(from, T)) # ForeignKeySet(GetName(to, T))
    \/ UniqueIndexSet(GetName(from, T)) # UniqueIndexSet(GetName(to, T))
    \/ NewColumns(T) # {}

\* the single-column foreign keys of R that target T
SingleTargeting(defs, R, T) ==
    {fk \in Range(GetName(defs, R).foreignKeys) :
        Len(fk.localColumns) = 1 /\ fk.foreignTable = T}

PositionsOf(cat, table, name) ==
    {k \in DOMAIN Ops : Ops[k].title = [cat |-> cat, table |-> table, name |-> name]}

\* the foreign key of R is removed before T is recreated and, when `to` still
\* declares it and outside creationMode, added after
DroppedAround(R, T, fk) ==
    LET column == fk.localColumns[1].name
        recreate == PositionsOf("Recreate table", T, Null)
        declared == \E g \in SingleTargeting(to, R, T) : g.localColumns[1].name = column
    IN  /\ recreate # {}
        /\ \E i \in PositionsOf("Remove foreign key", R, column) :
               \A j \in recreate : i < j
        /\ (declared /\ ~options.creationMode) =>
               \E k \in PositionsOf("Add foreign key", R, column) :
                   \A j \in recreate : j < k

\* C19: when a table T of both snapshots has a primary-key, unique-set,
\* foreign-key-set, unique-index or new-column change, every single-column
\* foreign key of another table R of both snapshots that targets T in `from`
\* gets a remove-foreign-key operation before T's recreate operation and,
\* outside creationMode and if `to` still declares it, an add-foreign-key
\* operation after T's recreate operation.
C19_StructuralChangeCascades ==
    (Returned /\ ValidSnapshot(from) /\ ValidSnapshot(to)) =>
        \A T \in InBoth : \A R \in InBoth \ {T} :
            StructuralChange(T) =>
                \A fk \in SingleTargeting(from, R, T) : DroppedAround(R, T, fk)


\* the tables the plan removes, and those it removes or recreates
RemovedNames == {op.title.table : op \in Range(OpsOf("Remove table"))}

Touched == RemovedNames \cup RecreatedNames

\* the single-column foreign keys of `from` that a remove-foreign-key
\* operation names
RemovedForeignKeys(op) ==
    {fk \in Range(GetName(from, op.title.table).foreignKeys) :
        Len(fk.localColumns) = 1 /\ fk.localColumns[1].name = op.title.name}

\* C20 as stated: every remove-foreign-key operation concerns a single-column
\* foreign key of `from` whose target table the same plan removes or
\* recreates.
C20_RemovedForeignKeysTargetTouched ==
    Returned =>
        \A op \in Range(OpsOf("Remove foreign key")) :
            /\ HasName(from, op.title.table)
            /\ RemovedForeignKeys(op) # {}
            /\ \A fk \in RemovedForeignKeys(op) : fk.foreignTable \in Touched

\* C20 amended: every remove-foreign-key operation concerns a single-column
\* foreign key of `from` whose owning table the same plan recreates or has,
\* in `from`, a foreign key targeting a table the same plan recreates.
C20_RemovedForeignKeysOwnerTouched ==
    Returned =>
        \A op \in Range(OpsOf("Remove foreign key")) :
            /\ HasName(from, op.title.table)
            /\ RemovedForeignKeys(op) # {}
            /\ \/ op.title.table \in RecreatedNames
               \/ \E T \in RecreatedNames : Targets(from, op.title.table, T)

C20_Witness ==
    /\ pc = "planned"
    /\ \E op \in Range(OpsOf("Remove foreign key")) :
           /\ op.title.table \in RecreatedNames
           /\ \E fk \in RemovedForeignKeys(op) : fk.foreignTable \notin Touched
    /\ OpsOf("Add foreign key") # <<>>


\* the CREATE TABLE statements of an operation
CreatesOf(op) == {op.sql[k] : k \in {n \in DOMAIN op.sql : op.sql[n].kind = "CREATE TABLE"}}

NoReferencesClause(stmt) ==
    \A n \in DOMAIN stmt.columns : stmt.columns[n].ref.table = Null

\* the database declares the single-column foreign key fk on its column of T
DeclaredInDb(T, fk) ==
    \E x \in Range(db.tables) :
        /\ x.table = Str(T)
        /\ \E n \in DOMAIN x.columns :
               /\ x.columns[n].name = fk.localColumns[1].name
               /\ x.columns[n].ref = Reference(fk)

\* C21: the shadow table of a recreated table T is created without any
\* single-column REFERENCES clause and, outside creationMode, every
\* single-column foreign key that T declares in `to` gets exactly one
\* add-foreign-key operation, after T's recreate operation; once the plan of
\* valid snapshots is executed the database declares that foreign key.
C21_ForeignKeysSurviveRecreation ==
    Returned =>
        \A T \in RecreatedNames :
            /\ \A j \in PositionsOf("Recreate table", T, Null) :
                   /\ CreatesOf(Ops[j]) # {}
                   /\ \A stmt \in CreatesOf(Ops[j]) : NoReferencesClause(stmt)
            /\ ~options.creationMode =>
                   \A fk \in {g \in Range(GetName(to, T).foreignKeys) : Len(g.localColumns) = 1} :
                       LET added == PositionsOf("Add foreign key", T, fk.localColumns[1].name)
                       IN  /\ Cardinality(added) = 1
                           /\ \A k \in added : \A j \in PositionsOf("Recreate table", T, Null) :
                                  j < k
                           /\ (pc = "done" /\ ValidSnapshot(from) /\ ValidSnapshot(to)) =>
                                  DeclaredInDb(T, fk)

C21_Witness ==
    /\ pc = "done" /\ ValidSnapshot(from) /\ ValidSnapshot(to)
    /\ \E T \in RecreatedNames :
           \E fk \in Range(GetName(to, T).foreignKeys) :
               /\ Len(fk.localColumns) = 1
               /\ PositionsOf("Add foreign key", T, fk.localColumns[1].name) # {}


\* C22: a table of both snapshots is classified as having a unique-set
\* change exactly when the set of its unique constraints, each taken as a
\* set of column names, differs between `from` and `to`.
C22_UniqueSetChange ==
    (Returned /\ ValidSnapshot(from) /\ ValidSnapshot(to)) =>
        \A T \in InBoth :
            ("uniques" \in ReasonsOf(T))
                <=> (UniqueSets(GetName(from, T)) # UniqueSets(GetName(to, T)))


\* the columns of `from` that `to` lacks, in tables of both snapshots that the
\* plan does not recreate
ColumnsOnlyInFrom ==
    UNION {{Ref(T, c.name) :
               c \in {x \in Range(GetName(from, T).columns) :
                         ~HasName(GetName(to, T).columns, x.name)}} :
           T \in InBoth \ RecreatedNames}

\* C23: a remove-column operation is emitted for column c of table T exactly
\* when T is in both snapshots, is not recreated, and c is in from.T but not
\* in to.T; summary.removedColumns lists exactly those columns.
C23_RemovedColumns ==
    Returned =>
        /\ {Ref(op.title.table, op.title.name) : op \in Range(OpsOf("Remove column"))}
               = ColumnsOnlyInFrom
        /\ Len(OpsOf("Remove column")) = Cardinality(ColumnsOnlyInFrom)
        /\ Range(result.summary.removedColumns) = ColumnsOnlyInFrom
        /\ Len(result.summary.removedColumns) = Cardinality(ColumnsOnlyInFrom)

C23_Witness ==
    /\ pc = "planned"
    /\ ColumnsOnlyInFrom # {}
    /\ RecreatedNames # {}


\* the names of the indexes table T has in either snapshot
IndexNamesIn(defs, T) == {x.name : x \in Range(GetName(defs, T).indexes)}

ColumnOpsOf(T) ==
    {k \in DOMAIN Ops : /\ Ops[k].title.cat \in {"Add column", "Remove column"}
                        /\ Ops[k].title.table = T}

IndexOpsOf(T) ==
    {k \in DOMAIN Ops : /\ Ops[k].title.cat \in {"Add index", "Remove index"}
                        /\ Ops[k].title.name \in IndexNamesIn(from, T) \cup IndexNamesIn(to, T)}

\* C24 as stated: no add-column, remove-column, add-index or remove-index
\* operation is emitted for a recreated table or its indexes.
C24_RecreationSubsumes ==
    Returned => \A T \in RecreatedNames : ColumnOpsOf(T) = {} /\ IndexOpsOf(T) = {}

\* C24 amended: no add-column or remove-column operation is emitted for a
\* recreated table; each index it has in `from` gets a remove-index operation
\* before its recreate operation and each index it has in `to` an add-index
\* operation after it.
C24_RecreationSubsumesColumns ==
    Returned =>
        \A T \in RecreatedNames :
            /\ ColumnOpsOf(T) = {}
            /\ \A n \in IndexNamesIn(from, T) :
                   \E i \in PositionsOf("Remove index", Null, n) :
                       \A j \in PositionsOf("Recreate table", T, Null) : i < j
            /\ \A n \in IndexNamesIn(to, T) :
                   \E k \in PositionsOf("Add index", Null, n) :
                       \A j \in PositionsOf("Recreate table", T, Null) : j < k

C24_Witness ==
    /\ pc = "planned"
    /\ \E T \in RecreatedNames :
           /\ IndexNamesIn(from, T) # {}
           /\ IndexNamesIn(to, T) # {}
           /\ \E i \in DOMAIN from : \E j \in DOMAIN to :
                  /\ from[i].name = T /\ to[j].name = T
                  /\ from[i].indexes = to[j].indexes


DbColumnNames(d, name) ==
    UNION {{x.columns[n].name : n \in DOMAIN x.columns} :
           x \in {y \in Range(d.tables) : y.table = name}}

\* what a statement refers to exists in the schema d, and what it creates
\* does not
Applicable(d, stmt) ==
    CASE stmt.kind = "DROP INDEX" -> \E x \in Range(d.indexes) : x.index = stmt.index
      [] stmt.kind = "DROP TABLE" -> DbHasTable(d, stmt.table)
      [] stmt.kind \in {"DROP COLUMN", "ALTER COLUMN"} ->
           DbHasTable(d, stmt.table) /\ stmt.column \in DbColumnNames(d, stmt.table)
      [] stmt.kind = "INSERT SELECT" ->
           /\ DbHasTable(d, stmt.table) /\ DbHasTable(d, stmt.into)
           /\ Range(stmt.columns) \subseteq DbColumnNames(d, stmt.table)
      [] stmt.kind = "RENAME" -> DbHasTable(d, stmt.table) /\ ~DbHasTable(d, stmt.to)
      [] stmt.kind = "CREATE TABLE" -> ~DbHasTable(d, stmt.table)
      [] stmt.kind = "ADD COLUMN" ->
           DbHasTable(d, stmt.table) /\ stmt.def.name \notin DbColumnNames(d, stmt.table)
      [] OTHER -> TRUE

\* C26: applied in order to a schema equal to `from`, every statement of the
\* plan of two valid snapshots refers to tables, columns and indexes that
\* exist at that point and creates only names that do not.
C26_PlanExecutable ==
    (Returned /\ ValidSnapshot(from) /\ ValidSnapshot(to)) =>
        \A k \in DOMAIN PlanStatements :
            Applicable(ExecAll(SchemaOf(from), SubSeq(PlanStatements, 1, k - 1)),
                       PlanStatements[k])

C26_Witness ==
    /\ pc = "planned" /\ ValidSnapshot(from) /\ ValidSnapshot(to)
    /\ \E k \in DOMAIN PlanStatements : PlanStatements[k].kind = "DROP INDEX"
    /\ \E k \in DOMAIN PlanStatements : PlanStatements[k].kind = "ADD COLUMN"
    /\ \E k \in DOMAIN PlanStatements : PlanStatements[k].kind = "RENAME"


\* a rename of an entity the owner has to the name of another entity it has
RenameToUsedName ==
    /\ call'.op \in {"renameColumn", "renameTable"}
    /\ call'.arg.old # call'.arg.new
    /\ LET names == IF call'.op = "renameTable" THEN snapshot
                    ELSE GetName(snapshot, call'.table).columns
       IN  HasName(names, call'.arg.old) /\ HasName(names, call'.arg.new)

\* C27: renaming a column or a table to a name that another column of the
\* table, or another table of the snapshot, bears throws and leaves the owner
\* as it was: the entity is still stored under its old name and the other
\* entity is untouched.
C27_RenameToUsedNameRejected ==
    [][RenameToUsedName => (call'.threw /\ snapshot' = snapshot)]_vars


\* some table of the snapshot has a filled primary-key slot above an unfilled one
SparseKeyIn(defs) ==
    \E i \in DOMAIN defs : \E j, k \in DOMAIN defs[i].primaryKey :
        j < k /\ defs[i].primaryKey[j] = Undefined /\ defs[i].primaryKey[k] # Undefined

\* the primary-key slots of every table are filled from 1 on without a gap
ContiguousKeysIn(defs) ==
    \A i \in DOMAIN defs : \A k \in DOMAIN defs[i].primaryKey :
        defs[i].primaryKey[k] # Undefined

\* what verify rejects in a table besides an unfilled slot
OtherFaultIn(defs) ==
    \E i \in DOMAIN defs :
        \/ \E k \in DOMAIN defs[i].primaryKey :
               /\ defs[i].primaryKey[k] # Undefined
               /\ ~HasName(defs[i].columns, defs[i].primaryKey[k].name)
        \/ \E k \in DOMAIN defs[i].columns : defs[i].columns[k].owner # defs[i].name
        \/ \E k \in DOMAIN defs[i].indexes : defs[i].indexes[k].owner # defs[i].name
        \/ \E k \in DOMAIN defs[i].foreignKeys : ~ForeignKeyVerify(defs[i].foreignKeys[k])
        \/ \E k \in DOMAIN defs[i].uniques : ~UniqueVerify(defs[i].uniques[k])

\* C28: when a table of either snapshot has a sparse primary key the call
\* throws without any operation, at verification unless the creationMode
\* check has thrown before it; snapshots whose primary-key slots are filled
\* without a gap fail at verification only for another fault.
C28_SparsePrimaryKeyRejected ==
    Called =>
        /\ (SparseKeyIn(from) \/ SparseKeyIn(to)) =>
               /\ result.threw
               /\ Ops = <<>>
               /\ (options.creationMode /\ from # <<>>) \/ result.error = "verify"
        /\ (ContiguousKeysIn(from) /\ ContiguousKeysIn(to)
              /\ result.threw /\ result.error = "verify") =>
               (OtherFaultIn(from) \/ OtherFaultIn(to))

C28_Witness ==
    /\ pc = "threw" /\ ~options.creationMode
    /\ SparseKeyIn(to) /\ ~SparseKeyIn(from)
    /\ ~OtherFaultIn(from) /\ ~OtherFaultIn(to)
    /\ result.error = "verify"


\* the multi-column foreign keys of a table, each as the set of its pairs of
\* a local and a target column, and each as its two sets of columns
PairedForeignKeys(table) ==
    {[pairs |-> {<<fk.localColumns[n].name, fk.foreignColumns[n].name>> :
                    n \in DOMAIN fk.localColumns},
      foreignTable |-> fk.foreignTable, onDelete |-> fk.onDelete, onUpdate |-> fk.onUpdate] :
        fk \in {g \in Range(table.foreignKeys) : Len(g.localColumns) > 1}}

UnpairedForeignKeys(table) ==
    {[localColumns |-> {c.name : c \in Range(fk.localColumns)},
      foreignColumns |-> {c.name : c \in Range(fk.foreignColumns)},
      foreignTable |-> fk.foreignTable, onDelete |-> fk.onDelete, onUpdate |-> fk.onUpdate] :
        fk \in {g \in Range(table.foreignKeys) : Len(g.localColumns) > 1}}

\* C29: a table whose multi-column foreign keys have, in both snapshots, the
\* same local columns, target table, target columns and actions but pair the
\* local columns with the target columns differently is recreated with a
\* reason that includes 'fks'.
C29_PairingChangeIsForeignKeyChange ==
    (Returned /\ ValidSnapshot(from) /\ ValidSnapshot(to)) =>
        \A T \in InBoth :
            (/\ UnpairedForeignKeys(GetName(from, T)) = UnpairedForeignKeys(GetName(to, T))
             /\ PairedForeignKeys(GetName(from, T)) # PairedForeignKeys(GetName(to, T)))
                => (T \in RecreatedNames /\ "fks" \in ReasonsOf(T))

====
